---- MODULE Spec2Model ----
(***************************************************************************)
(* Goldilocks: the decision/estimation engine of the home-climate advisor. *)
(*                                                                         *)
(* Several state machines share this module, one per component; each       *)
(* leaves the variables of the others at their idle values:                *)
(*   Spec      the recommendation engine (backend/logic/recommendation.js) *)
(*             applied, at a wall-clock hour, to one input struct;         *)
(*   TipSpec   the same engine on longer forecasts;                        *)
(*   MoldSpec  the mold-risk accumulator (backend/logic/moldRisk.js)       *)
(*             applied to a growing sequence of sensor readings;           *)
(*   CostSpec  the cost model (estimateCost with housing profiles);        *)
(*   RateSpec  the electricity rates (backend/logic/electricityRates.js);  *)
(*   EstSpec   the indoor-humidity estimator (estimateIndoorHumidity);     *)
(*   WxSpec    the weather cache of fetchWeather (backend/logic/weather.js)*)
(*             under concurrent requests and a running clock.              *)
(*                                                                         *)
(* Numbers.  Temperatures are whole degrees Celsius, humidities whole      *)
(* percent, prices whole cents, a forecast entry's pop is in hundredths    *)
(* (the code's 0.4 is 40 here).  JavaScript null/undefined and NaN are the *)
(* two sentinels NULL and NAN; every comparison of the code that can see   *)
(* one of them is written out with the result JavaScript gives it.  The    *)
(* cost model, the rates and the estimator use finer units, stated where   *)
(* they are defined.                                                       *)
(***************************************************************************)
EXTENDS Integers, Sequences, FiniteSets, TLC

VARIABLES
    inp,        \* the argument struct handed to getRecommendation
    last,       \* the last call of getRecommendation: the hour new Date().getHours()
                \* gave it and the struct it returned (hour -1: no call yet)
    prev,       \* the call before the last one, likewise
    readings,   \* the readings of the device, in ascending time order
    interval,   \* the intervalMinutes argument of computeMoldRisk
    risk,       \* what the last call of computeMoldRisk returned
    costFixed,  \* the arguments of estimateCost held fixed: housing_type, price, ac_cop
    costLast,   \* the last call of estimateCost: Tin, target, kWh_per_degC, result
    costPrev,   \* the call of estimateCost before the last one, likewise
    plan,       \* the plan_type of the user whose rate is asked for
    date,       \* the date argument of the last getCurrentRate: month, day, hour
    rate,       \* what the last call of getCurrentRate returned
    estArgs,    \* the arguments of estimateIndoorHumidity
    est,        \* what the call of estimateIndoorHumidity on them returned
    apiKey,        \* the OpenWeatherMap key of the process environment
    clock,         \* Date.now(), in units of five minutes
    weatherCaches, \* weather.js weatherCaches: cache key -> { data, timestamp }
    pending,       \* the fetchWeather calls waiting for the network
    ret,           \* the last fetchWeather call that returned, and what it returned
    timer,      \* per module (monitor, cron): its variable timer, an interval or null
    timeouts,   \* per module: the start-up timeouts set and not yet fired
    intervals,  \* per module: the interval timers that are active
    stopSeen,   \* per module: stop() has returned after a start(), no start() since
    lastEvent,  \* per module: what happened last: start, stop, or a periodic run
    env,        \* what the two handlers read: user row, readings, weather, rate, hour
    monRec,     \* the recommendation checkConditions computed from env
    dashRec,    \* the recommendation GET /api/dashboard computed from env
    time,          \* Date.now() of the monitor's process, in units of 30 minutes
    lastState,     \* conditionMonitor.js lastState
    lastMoldAlert, \* conditionMonitor.js lastMoldAlert
    running,       \* the checkConditions invocations waiting for fetchWeather
    notifications, \* the rows the monitor inserted into notifications, in order
    checked        \* how the last check that ended did: "early" or "reached"

vars == <<inp, last, prev, readings, interval, risk, costFixed, costLast, costPrev,
          plan, date, rate, estArgs, est, apiKey, clock, weatherCaches, pending, ret,
          timer, timeouts, intervals, stopSeen, lastEvent, env, monRec, dashRec,
          time, lastState, lastMoldAlert, running, notifications, checked>>
recVars == <<inp, last, prev>>
moldVars == <<readings, interval, risk>>
costVars == <<costFixed, costLast, costPrev>>
rateVars == <<plan, date, rate>>
estVars == <<estArgs, est>>
wxVars == <<apiKey, clock, weatherCaches, pending, ret>>
timerVars == <<timer, timeouts, intervals, stopSeen, lastEvent>>
cmpVars == <<env, monRec, dashRec>>
monVars == <<time, lastState, lastMoldAlert, running, notifications, checked>>
lateVars == <<timerVars, cmpVars, monVars>>

NULL == -9999
NAN == -9998
INF == 9999

Abs(x) == IF x < 0 THEN -x ELSE x
Max(a, b) == IF a > b THEN a ELSE b
Min(a, b) == IF a < b THEN a ELSE b

(***************************************************************************)
(* typeof x === 'number' && !isNaN(x)                                      *)
(***************************************************************************)
IsNumber(x) == x # NULL /\ x # NAN

\* Mutant of isRainExpected: the descriptions are not looked at.
isRainExpectedPopOnly(forecast) ==
    IF Len(forecast) = 0 THEN FALSE
    ELSE \E i \in 1..Len(forecast) : forecast[i].pop > 40

(***************************************************************************)
(* weather.js isRainExpected: an entry is [pop, descRain, humidity_RH,     *)
(* temp_C]; descRain is description.includes('rain').                      *)
(***************************************************************************)
isRainExpected(forecast) ==
    IF Len(forecast) = 0 THEN FALSE
    ELSE \E i \in 1..Len(forecast) : forecast[i].pop > 40 \/ forecast[i].descRain

(***************************************************************************)
(* forecast.find(test): given the positions (from 1) of the entries that   *)
(* pass the test, the first of them, 0 when find gives undefined.          *)
(***************************************************************************)
Find(hits) == IF hits = {} THEN 0 ELSE CHOOSE i \in hits : \A j \in hits : i <= j

IsRainSoon(f, i) == i < 3 /\ f.pop > 40

IsMildWindow(f, i) == i < 4 /\ f.humidity_RH < 55 /\ f.temp_C > 5 /\ f.temp_C < 28

\* a tip names the forecast entry it is about (at: its position, standing for
\* its dt_txt) and, for a ventilation window, quotes its temperature and humidity
Tip(kind, at, temp_C, humidity_RH) ==
    [kind |-> kind, at |-> at, temp_C |-> temp_C, humidity_RH |-> humidity_RH]

NullTip == Tip("null", 0, NULL, NULL)

\* Mutant of getForecastTip: the mild window is looked for before the rain.
getForecastTipWindowFirst(forecast) ==
    IF Len(forecast) = 0 THEN NullTip
    ELSE LET rainSoon ==
                 Find({ i \in 1..Len(forecast) : IsRainSoon(forecast[i], i - 1) })
             mildWindow ==
                 Find({ i \in 1..Len(forecast) : IsMildWindow(forecast[i], i - 1) })
         IN  IF mildWindow # 0
             THEN Tip("window", mildWindow, forecast[mildWindow].temp_C,
                      forecast[mildWindow].humidity_RH)
             ELSE IF rainSoon # 0 THEN Tip("rain", rainSoon, NULL, NULL)
             ELSE NullTip

(***************************************************************************)
(* recommendation.js getForecastTip: which tip is produced (rain, window   *)
(* or null) and about which entry; the wording of the tip is not modelled. *)
(***************************************************************************)
getForecastTip(forecast) ==
    IF Len(forecast) = 0 THEN NullTip
    ELSE LET rainSoon ==
                 Find({ i \in 1..Len(forecast) : IsRainSoon(forecast[i], i - 1) })
             mildWindow ==
                 Find({ i \in 1..Len(forecast) : IsMildWindow(forecast[i], i - 1) })
         IN  IF rainSoon # 0 THEN Tip("rain", rainSoon, NULL, NULL)
             ELSE IF mildWindow # 0
             THEN Tip("window", mildWindow, forecast[mildWindow].temp_C,
                      forecast[mildWindow].humidity_RH)
             ELSE NullTip

(***************************************************************************)
(* Mutants of getComfortBand: the early-morning half of the night is       *)
(* forgotten; one night value is taken for a night band.                   *)
(***************************************************************************)
getComfortBandLateOnly(b, hr) ==
    LET isNight == hr >= 22
    IN  IF isNight /\ b.comfort_min_night # NULL /\ b.comfort_max_night # NULL
        THEN [min |-> b.comfort_min_night, max |-> b.comfort_max_night, period |-> "night"]
        ELSE [min |-> b.comfort_min, max |-> b.comfort_max, period |-> "day"]

getComfortBandEitherValue(b, hr) ==
    LET isNight == hr >= 22 \/ hr < 7
    IN  IF isNight /\ (b.comfort_min_night # NULL \/ b.comfort_max_night # NULL)
        THEN [min |-> b.comfort_min_night, max |-> b.comfort_max_night, period |-> "night"]
        ELSE [min |-> b.comfort_min, max |-> b.comfort_max, period |-> "day"]

(***************************************************************************)
(* recommendation.js getComfortBand; hr is new Date().getHours().          *)
(***************************************************************************)
getComfortBand(b, hr) ==
    LET isNight == hr >= 22 \/ hr < 7
    IN  IF isNight /\ b.comfort_min_night # NULL /\ b.comfort_max_night # NULL
        THEN [min |-> b.comfort_min_night, max |-> b.comfort_max_night, period |-> "night"]
        ELSE [min |-> b.comfort_min, max |-> b.comfort_max, period |-> "day"]

(***************************************************************************)
(* recommendation.js lines 57-81: the sanitised arguments and the derived  *)
(* booleans of one call made at local hour hr.  target is (min + max) / 2; *)
(* the two distances to it are compared doubled (|2T - (min + max)|),      *)
(* which is the same comparison without the half.  outdoorDrier is true,   *)
(* false or null.                                                          *)
(***************************************************************************)
outdoorDrierOf(RHin, RHout) ==
    IF RHin # NULL /\ RHout # NULL
    THEN (IF RHout < RHin THEN "true" ELSE "false")
    ELSE "null"

Derived(in, hr) ==
    LET Tin   == IF IsNumber(in.Tin) THEN in.Tin ELSE 21
        Tout  == IF IsNumber(in.Tout) THEN in.Tout ELSE 10
        RHin  == IF IsNumber(in.RHin) THEN in.RHin ELSE NULL
        RHout == IF IsNumber(in.RHout) THEN in.RHout ELSE NULL
        \* typeof NaN is 'number': a NaN price stays NaN
        price == IF in.price_cents_per_kWh # NULL THEN in.price_cents_per_kWh ELSE 10
        band  == getComfortBand(in, hr)
        target2 == band.min + band.max
    IN  [ Tin |-> Tin, Tout |-> Tout, RHin |-> RHin, RHout |-> RHout,
          band |-> band,
          target2 |-> target2,
          isComfortable |-> Tin >= band.min /\ Tin <= band.max,
          isTooHot  |-> Tin > band.max,
          isTooCold |-> Tin < band.min,
          outdoorCloserToTarget |-> Abs(2 * Tout - target2) < Abs(2 * Tin - target2),
          outdoorDrier |-> outdoorDrierOf(RHin, RHout),
          rainComing   |-> isRainExpected(in.forecast),
          isExpensive  |-> price # NAN /\ price >= 15,
          isCheap      |-> price # NAN /\ price <= 5,
          mold     |-> in.moldRiskLevel,
          forecast |-> in.forecast ]

(***************************************************************************)
(* The return statement of every branch: proactive_tip and comfort_period  *)
(* are filled the same way everywhere, humidity_tip is a key of the USE_AC *)
(* return alone ("undefined" elsewhere).  reasons holds one tag per pushed *)
(* string.                                                                 *)
(***************************************************************************)
Result(state, confidence, reasons, humidity_tip, d) ==
    [ state          |-> state,
      confidence     |-> confidence,
      reasons        |-> reasons,
      proactive_tip  |-> getForecastTip(d.forecast),
      humidity_tip   |-> humidity_tip,
      comfort_period |-> d.band.period ]

(***************************************************************************)
(* reasons.push(s) when cond holds.                                        *)
(***************************************************************************)
PushIf(reasons, cond, s) == IF cond THEN Append(reasons, s) ELSE reasons

(***************************************************************************)
(* What the caller sees when a branch dereferences null: RHin.toFixed(0)   *)
(* and RHout.toFixed(0) of lines 89-90 are the two calls without ?. on a   *)
(* value that may be null.                                                 *)
(***************************************************************************)
TypeError(d) == Result("TypeError", "none", <<>>, "undefined", d)

(***************************************************************************)
(* Mutant of ComfortBranch: the humidity threshold is not strict.          *)
(***************************************************************************)
ComfortBranchAtSixty(d) ==
    IF d.RHin # NULL /\ d.RHin >= 60 /\ d.outdoorDrier = "true" /\ ~d.rainComing
    THEN Result("OPEN_WINDOW", "MEDIUM", <<"humid", "drier">>, "undefined", d)
    ELSE Result("DO_NOTHING", "HIGH",
                PushIf(<<"comfort">>, d.mold = "MEDIUM", "moderate"), "undefined", d)

(***************************************************************************)
(* 1. Comfortable and mold risk not HIGH (lines 86-99).                    *)
(***************************************************************************)
ComfortBranch(d) ==
    IF d.RHin # NULL /\ d.RHin > 60 /\ d.outdoorDrier = "true" /\ ~d.rainComing
    THEN IF d.RHin = NULL \/ d.RHout = NULL
         THEN TypeError(d)
         ELSE Result("OPEN_WINDOW", "MEDIUM",
                     PushIf(<<"humid", "drier">>, d.rainComing, "rain"), "undefined", d)
    ELSE Result("DO_NOTHING", "HIGH",
                PushIf(<<"comfort">>, d.mold = "MEDIUM", "moderate"), "undefined", d)

(***************************************************************************)
(* 2. Mold risk HIGH: the guard (line 102) and the return (lines 103-105). *)
(***************************************************************************)
\* Mutant of MoldOverride: the forecast is not looked at.
MoldOverrideInRain(d) == d.mold = "HIGH" /\ d.outdoorDrier # "false"

\* Mutant of MoldOverride: unknown dryness no longer counts.
MoldOverrideDrierOnly(d) == d.mold = "HIGH" /\ d.outdoorDrier = "true" /\ ~d.rainComing

MoldOverride(d) == d.mold = "HIGH" /\ d.outdoorDrier # "false" /\ ~d.rainComing

MoldBranch(d) ==
    Result("OPEN_WINDOW", "HIGH",
           PushIf(<<"mold">>, d.outdoorDrier = "true", "drier"), "undefined", d)

(***************************************************************************)
(* Mutant of TooHotBranch: cooler outdoor air is taken to help whatever    *)
(* its distance to the target.                                             *)
(***************************************************************************)
TooHotBranchNoDistance(d) ==
    IF d.Tout < d.Tin /\ ~d.rainComing
    THEN Result("OPEN_WINDOW",
                IF d.outdoorDrier # "false" THEN "HIGH" ELSE "MEDIUM",
                PushIf(PushIf(<<"cooler">>, d.outdoorDrier = "true", "drier"),
                       d.isExpensive, "price"),
                "undefined", d)
    ELSE Result("USE_AC", "HIGH",
                PushIf(PushIf(<<"above", "nohelp">>, d.isExpensive, "costly"),
                       ~d.isExpensive /\ d.isCheap, "cheap"),
                IF d.RHin # NULL /\ d.RHin > 60 THEN "tip" ELSE "null", d)

(***************************************************************************)
(* 3. Too hot (lines 109-129).                                             *)
(***************************************************************************)
TooHotBranch(d) ==
    IF d.Tout < d.Tin /\ d.outdoorCloserToTarget /\ ~d.rainComing
    THEN Result("OPEN_WINDOW",
                IF d.outdoorDrier # "false" THEN "HIGH" ELSE "MEDIUM",
                PushIf(PushIf(PushIf(<<"cooler">>, d.outdoorDrier = "true", "drier"),
                              d.isExpensive, "price"),
                       d.rainComing, "rain"),
                "undefined", d)
    ELSE Result("USE_AC", "HIGH",
                PushIf(PushIf(<<"above", "nohelp">>, d.isExpensive, "costly"),
                       ~d.isExpensive /\ d.isCheap, "cheap"),
                IF d.RHin # NULL /\ d.RHin > 60 THEN "tip" ELSE "null", d)

(***************************************************************************)
(* Mutant of TooColdBranch: warmer outdoor air is taken to help whatever   *)
(* its distance to the target.                                             *)
(***************************************************************************)
TooColdBranchNoDistance(d) ==
    IF d.Tout > d.Tin /\ ~d.rainComing
    THEN Result("OPEN_WINDOW", "MEDIUM",
                PushIf(<<"warmer">>, d.isExpensive, "price"), "undefined", d)
    ELSE Result("USE_HEAT", "HIGH",
                IF d.isExpensive
                THEN <<"below", "nohelp", "expensive", "layer">>
                ELSE PushIf(<<"below", "nohelp">>, d.isCheap, "cheap"),
                "undefined", d)

(***************************************************************************)
(* Mutant of TooColdBranch: at an expensive price the engine waits instead *)
(* of heating.                                                             *)
(***************************************************************************)
TooColdBranchWaitsWhenExpensive(d) ==
    IF d.Tout > d.Tin /\ d.outdoorCloserToTarget /\ ~d.rainComing
    THEN Result("OPEN_WINDOW", "MEDIUM",
                PushIf(<<"warmer">>, d.isExpensive, "price"), "undefined", d)
    ELSE IF d.isExpensive
         THEN Result("DO_NOTHING", "LOW",
                     <<"below", "nohelp", "expensive", "layer">>, "undefined", d)
         ELSE Result("USE_HEAT", "HIGH",
                     PushIf(<<"below", "nohelp">>, d.isCheap, "cheap"),
                     "undefined", d)

(***************************************************************************)
(* 4. Too cold (lines 132-152).                                            *)
(***************************************************************************)
TooColdBranch(d) ==
    IF d.Tout > d.Tin /\ d.outdoorCloserToTarget /\ ~d.rainComing
    THEN Result("OPEN_WINDOW", "MEDIUM",
                PushIf(<<"warmer">>, d.isExpensive, "price"), "undefined", d)
    ELSE Result("USE_HEAT", "HIGH",
                IF d.isExpensive
                THEN <<"below", "nohelp", "expensive", "layer">>
                ELSE PushIf(<<"below", "nohelp">>, d.isCheap, "cheap"),
                "undefined", d)

\* Mutant of Fallback: the branch returns without pushing its reason.
FallbackSilent(d) == Result("DO_NOTHING", "LOW", <<>>, "undefined", d)

(***************************************************************************)
(* Fallback (lines 155-156).                                               *)
(***************************************************************************)
Fallback(d) == Result("DO_NOTHING", "LOW", <<"borderline">>, "undefined", d)

\* Mutant of getRecommendation: the too-cold branch is missing.
getRecommendationNoColdBranch(in, hr) ==
    LET d == Derived(in, hr)
    IN  IF d.isComfortable /\ d.mold # "HIGH" THEN ComfortBranch(d)
        ELSE IF MoldOverride(d) THEN MoldBranch(d)
        ELSE IF d.isTooHot THEN TooHotBranch(d)
        ELSE Fallback(d)

(***************************************************************************)
(* recommendation.js getRecommendation, called at local hour hr: the       *)
(* priority-ordered chain of the five branches.                            *)
(***************************************************************************)
getRecommendation(in, hr) ==
    LET d == Derived(in, hr)
    IN  IF d.isComfortable /\ d.mold # "HIGH" THEN ComfortBranch(d)
        ELSE IF MoldOverride(d) THEN MoldBranch(d)
        ELSE IF d.isTooHot THEN TooHotBranch(d)
        ELSE IF d.isTooCold THEN TooColdBranch(d)
        ELSE Fallback(d)

(***************************************************************************)
(* Math.round of the quotient n / d of two non-negative integers (half     *)
(* rounds up).  The quotients of computeMoldRisk are minutes * 40 / 360,   *)
(* minutes * 35 / 240 and minutes * 24 / 60, which doubles compute without *)
(* crossing a half for whole minutes.                                      *)
(***************************************************************************)
RoundDiv(n, d) == (2 * n + d) \div (2 * d)

(***************************************************************************)
(* moldRisk.js line 17: the readings with a humidity (null and undefined   *)
(* are dropped).                                                           *)
(***************************************************************************)
HasHumidity(r) == r.humidity_RH # NULL

validReadingsOf(rs) == SelectSeq(rs, HasHumidity)

(***************************************************************************)
(* moldRisk.js lines 29-33: the counters before the loop.                  *)
(***************************************************************************)
ZeroCounters ==
    [ minutes_over_60 |-> 0, minutes_over_70 |-> 0, minutes_60_70 |-> 0,
      consecutive_over_70 |-> 0, max_consecutive_over_70 |-> 0 ]

(***************************************************************************)
(* Mutants of Accumulate: the 70 threshold is not strict; the 60-70 band   *)
(* does not end a run of readings over 70.                                 *)
(***************************************************************************)
AccumulateAtSeventy(c, rh, intervalMinutes) ==
    IF rh >= 70 THEN
        [ c EXCEPT !.minutes_over_70 = @ + intervalMinutes,
                   !.minutes_over_60 = @ + intervalMinutes,
                   !.consecutive_over_70 = @ + intervalMinutes,
                   !.max_consecutive_over_70 =
                        Max(@, c.consecutive_over_70 + intervalMinutes) ]
    ELSE IF rh > 60 THEN
        [ c EXCEPT !.minutes_over_60 = @ + intervalMinutes,
                   !.minutes_60_70 = @ + intervalMinutes,
                   !.consecutive_over_70 = 0 ]
    ELSE [ c EXCEPT !.consecutive_over_70 = 0 ]

AccumulateNoReset(c, rh, intervalMinutes) ==
    IF rh > 70 THEN
        [ c EXCEPT !.minutes_over_70 = @ + intervalMinutes,
                   !.minutes_over_60 = @ + intervalMinutes,
                   !.consecutive_over_70 = @ + intervalMinutes,
                   !.max_consecutive_over_70 =
                        Max(@, c.consecutive_over_70 + intervalMinutes) ]
    ELSE IF rh > 60 THEN
        [ c EXCEPT !.minutes_over_60 = @ + intervalMinutes,
                   !.minutes_60_70 = @ + intervalMinutes ]
    ELSE [ c EXCEPT !.consecutive_over_70 = 0 ]

\* Mutant of Accumulate: the longest run is forgotten when a run ends.
AccumulateLastRun(c, rh, intervalMinutes) ==
    IF rh > 70 THEN
        [ c EXCEPT !.minutes_over_70 = @ + intervalMinutes,
                   !.minutes_over_60 = @ + intervalMinutes,
                   !.consecutive_over_70 = @ + intervalMinutes,
                   !.max_consecutive_over_70 =
                        c.consecutive_over_70 + intervalMinutes ]
    ELSE IF rh > 60 THEN
        [ c EXCEPT !.minutes_over_60 = @ + intervalMinutes,
                   !.minutes_60_70 = @ + intervalMinutes,
                   !.consecutive_over_70 = 0,
                   !.max_consecutive_over_70 = 0 ]
    ELSE [ c EXCEPT !.consecutive_over_70 = 0, !.max_consecutive_over_70 = 0 ]

(***************************************************************************)
(* moldRisk.js lines 37-50: the body of the loop, for one reading rh.      *)
(***************************************************************************)
Accumulate(c, rh, intervalMinutes) ==
    IF rh > 70 THEN
        [ c EXCEPT !.minutes_over_70 = @ + intervalMinutes,
                   !.minutes_over_60 = @ + intervalMinutes,
                   !.consecutive_over_70 = @ + intervalMinutes,
                   !.max_consecutive_over_70 =
                        Max(@, c.consecutive_over_70 + intervalMinutes) ]
    ELSE IF rh > 60 THEN
        [ c EXCEPT !.minutes_over_60 = @ + intervalMinutes,
                   !.minutes_60_70 = @ + intervalMinutes,
                   !.consecutive_over_70 = 0 ]
    ELSE [ c EXCEPT !.consecutive_over_70 = 0 ]

(***************************************************************************)
(* moldRisk.js line 36: for (const reading of validReadings), over the     *)
(* readings lo..hi in their order, starting from the counters c.  The      *)
(* range is walked as two halves, the second from the counters the first   *)
(* leaves, so that a day of one-minute readings stays within TLC's         *)
(* evaluation depth; the test half = half makes TLC compute the first half *)
(* before it enters the second.                                            *)
(***************************************************************************)
RECURSIVE Loop(_, _, _, _, _)
Loop(valid, lo, hi, c, intervalMinutes) ==
    IF lo > hi THEN c
    ELSE IF lo = hi THEN Accumulate(c, valid[lo].humidity_RH, intervalMinutes)
    ELSE LET mid == (lo + hi) \div 2
             half == Loop(valid, lo, mid, c, intervalMinutes)
         IN  IF half = half
             THEN Loop(valid, mid + 1, hi, half, intervalMinutes)
             ELSE half

(***************************************************************************)
(* Mutant of RiskOf: HIGH asks for both conditions instead of either.      *)
(***************************************************************************)
RiskOfBothNeeded(c) ==
    IF c.minutes_over_70 > 180 /\ c.max_consecutive_over_70 > 90 THEN
        [ risk_level |-> "HIGH",
          risk_score |-> Min(100, 60 + RoundDiv(c.minutes_over_70 * 40, 360)) ]
    ELSE IF c.minutes_over_60 > 60 THEN
        [ risk_level |-> "MEDIUM",
          risk_score |-> Min(59, 25 + RoundDiv(c.minutes_over_60 * 35, 240)) ]
    ELSE
        [ risk_level |-> "LOW",
          risk_score |-> Min(24, RoundDiv(c.minutes_over_60 * 24, 60)) ]

(***************************************************************************)
(* Mutant of RiskOf: the MEDIUM and LOW scores are not capped at the top   *)
(* of their range.                                                         *)
(***************************************************************************)
RiskOfUncapped(c) ==
    IF c.minutes_over_70 > 180 \/ c.max_consecutive_over_70 > 90 THEN
        [ risk_level |-> "HIGH",
          risk_score |-> Min(100, 60 + RoundDiv(c.minutes_over_70 * 40, 360)) ]
    ELSE IF c.minutes_over_60 > 60 THEN
        [ risk_level |-> "MEDIUM",
          risk_score |-> 25 + RoundDiv(c.minutes_over_60 * 35, 240) ]
    ELSE
        [ risk_level |-> "LOW",
          risk_score |-> RoundDiv(c.minutes_over_60 * 24, 60) ]

(***************************************************************************)
(* moldRisk.js lines 63-94: level and score from the counters.             *)
(***************************************************************************)
RiskOf(c) ==
    IF c.minutes_over_70 > 180 \/ c.max_consecutive_over_70 > 90 THEN
        [ risk_level |-> "HIGH",
          risk_score |-> Min(100, 60 + RoundDiv(c.minutes_over_70 * 40, 360)) ]
    ELSE IF c.minutes_over_60 > 60 THEN
        [ risk_level |-> "MEDIUM",
          risk_score |-> Min(59, 25 + RoundDiv(c.minutes_over_60 * 35, 240)) ]
    ELSE
        [ risk_level |-> "LOW",
          risk_score |-> Min(24, RoundDiv(c.minutes_over_60 * 24, 60)) ]

(***************************************************************************)
(* Mutant of computeMoldRisk: the guard on an empty list of valid readings *)
(* is missing, so that the counters, all zero, are scored.                 *)
(***************************************************************************)
computeMoldRiskNoGuard(rs, intervalMinutes) ==
    LET validReadings == validReadingsOf(rs)
        c == Loop(validReadings, 1, Len(validReadings), ZeroCounters,
                      intervalMinutes)
        r == RiskOf(c)
    IN  [ risk_level |-> r.risk_level, risk_score |-> r.risk_score,
          stats |-> [ minutes_over_60 |-> c.minutes_over_60,
                      minutes_over_70 |-> c.minutes_over_70,
                      minutes_60_70 |-> c.minutes_60_70,
                      max_consecutive_over_70 |-> c.max_consecutive_over_70,
                      current_humidity |->
                          IF Len(validReadings) = 0 THEN NULL
                          ELSE validReadings[Len(validReadings)].humidity_RH,
                      readingCount |-> Len(validReadings) ] ]

(***************************************************************************)
(* moldRisk.js computeMoldRisk (the explanation string is not modelled).   *)
(***************************************************************************)
computeMoldRisk(rs, intervalMinutes) ==
    LET validReadings == validReadingsOf(rs)
    IN  IF Len(validReadings) = 0 THEN
            [ risk_level |-> "UNKNOWN", risk_score |-> 0,
              stats |-> [ minutes_over_60 |-> 0, minutes_over_70 |-> 0,
                          minutes_60_70 |-> 0, max_consecutive_over_70 |-> 0,
                          current_humidity |-> NULL, readingCount |-> 0 ] ]
        ELSE
            LET c == Loop(validReadings, 1, Len(validReadings), ZeroCounters,
                      intervalMinutes)
                r == RiskOf(c)
            IN  [ risk_level |-> r.risk_level, risk_score |-> r.risk_score,
                  stats |-> [ minutes_over_60 |-> c.minutes_over_60,
                              minutes_over_70 |-> c.minutes_over_70,
                              minutes_60_70 |-> c.minutes_60_70,
                              max_consecutive_over_70 |-> c.max_consecutive_over_70,
                              current_humidity |->
                                  validReadings[Len(validReadings)].humidity_RH,
                              readingCount |-> Len(validReadings) ] ]

(***************************************************************************)
(* The cost model (unnamed/part_002, the costSavings module with housing   *)
(* profiles).  Energy per degree is in millionths of a kWh (the code's     *)
(* 0.000335 is 335), ac_cop in tenths, the price in whole cents; money     *)
(* comes out in ten-thousandths of a dollar and kWh_room in thousandths of *)
(* a kWh, the digits the code rounds to.                                   *)
(***************************************************************************)
HOUSING_PROFILES ==
    [ dorm      |-> [volume |-> 30, k |-> 5],
      apartment |-> [volume |-> 45, k |-> 5],
      house     |-> [volume |-> 80, k |-> 7],
      basement  |-> [volume |-> 35, k |-> 7],
      other     |-> [volume |-> 40, k |-> 5] ]

\* HOUSING_PROFILES[housing_type] || HOUSING_PROFILES.apartment, with the
\* parameter default 'apartment' for an absent housing_type
ProfileOf(housing_type) ==
    IF housing_type \in DOMAIN HOUSING_PROFILES
    THEN HOUSING_PROFILES[housing_type]
    ELSE HOUSING_PROFILES["apartment"]

kWhPerDegC(housing_type) ==
    ProfileOf(housing_type).k * 335 * ProfileOf(housing_type).volume

\* a || b on numbers: null, undefined, NaN and 0 are falsy
Truthy(x) == x # NULL /\ x # NAN /\ x # 0

(***************************************************************************)
(* Mutants of estimateCost: the temperature difference keeps its sign;     *)
(* the kWh_per_degC argument is ignored.                                   *)
(***************************************************************************)
estimateCostSigned(Tin, target, price_cents_per_kWh, kWh_per_degC, ac_cop, housing_type) ==
    LET cop == IF ac_cop = NULL THEN 25 ELSE ac_cop
        effectiveKwh == IF Truthy(kWh_per_degC) THEN kWh_per_degC
                        ELSE kWhPerDegC(housing_type)
        deltaT == target - Tin
        cost_heat == RoundDiv(effectiveKwh * deltaT * price_cents_per_kWh, 10000)
        cost_ac == RoundDiv(effectiveKwh * deltaT * price_cents_per_kWh, cop * 1000)
        mode == IF Tin > target THEN "AC" ELSE IF Tin < target THEN "HEAT" ELSE "NONE"
        hvac_cost == IF mode = "AC" THEN cost_ac
                     ELSE IF mode = "HEAT" THEN cost_heat ELSE 0
    IN  [ cost_heat |-> cost_heat, cost_ac |-> cost_ac, cost_window |-> 0,
          hvac_cost |-> hvac_cost, savings |-> hvac_cost,
          deltaT |-> deltaT, kWh_room |-> RoundDiv(effectiveKwh * deltaT, 1000),
          mode |-> mode,
          assumptions |-> [ kWh_per_degC |-> RoundDiv(effectiveKwh, 100),
                            ac_cop |-> cop,
                            room_volume_m3 |-> ProfileOf(housing_type).volume,
                            furnishing_factor |-> ProfileOf(housing_type).k ] ]

estimateCostProfileOnly(Tin, target, price_cents_per_kWh, kWh_per_degC, ac_cop, housing_type) ==
    LET cop == IF ac_cop = NULL THEN 25 ELSE ac_cop
        effectiveKwh == kWhPerDegC(housing_type)
        deltaT == Abs(target - Tin)
        cost_heat == RoundDiv(effectiveKwh * deltaT * price_cents_per_kWh, 10000)
        cost_ac == RoundDiv(effectiveKwh * deltaT * price_cents_per_kWh, cop * 1000)
        mode == IF Tin > target THEN "AC" ELSE IF Tin < target THEN "HEAT" ELSE "NONE"
        hvac_cost == IF mode = "AC" THEN cost_ac
                     ELSE IF mode = "HEAT" THEN cost_heat ELSE 0
    IN  [ cost_heat |-> cost_heat, cost_ac |-> cost_ac, cost_window |-> 0,
          hvac_cost |-> hvac_cost, savings |-> hvac_cost,
          deltaT |-> deltaT, kWh_room |-> RoundDiv(effectiveKwh * deltaT, 1000),
          mode |-> mode,
          assumptions |-> [ kWh_per_degC |-> RoundDiv(effectiveKwh, 100),
                            ac_cop |-> cop,
                            room_volume_m3 |-> ProfileOf(housing_type).volume,
                            furnishing_factor |-> ProfileOf(housing_type).k ] ]

(***************************************************************************)
(* part_002 estimateCost.  An absent ac_cop (NULL) takes the default 2.5;  *)
(* a truthy kWh_per_degC argument replaces the profile's energy per        *)
(* degree.  savings is hvac_cost - cost_window with cost_window 0.         *)
(***************************************************************************)
estimateCost(Tin, target, price_cents_per_kWh, kWh_per_degC, ac_cop, housing_type) ==
    LET cop == IF ac_cop = NULL THEN 25 ELSE ac_cop
        effectiveKwh == IF Truthy(kWh_per_degC) THEN kWh_per_degC
                        ELSE kWhPerDegC(housing_type)
        deltaT == Abs(target - Tin)
        cost_heat == RoundDiv(effectiveKwh * deltaT * price_cents_per_kWh, 10000)
        cost_ac == RoundDiv(effectiveKwh * deltaT * price_cents_per_kWh, cop * 1000)
        mode == IF Tin > target THEN "AC" ELSE IF Tin < target THEN "HEAT" ELSE "NONE"
        hvac_cost == IF mode = "AC" THEN cost_ac
                     ELSE IF mode = "HEAT" THEN cost_heat ELSE 0
    IN  [ cost_heat |-> cost_heat, cost_ac |-> cost_ac, cost_window |-> 0,
          hvac_cost |-> hvac_cost, savings |-> hvac_cost,
          deltaT |-> deltaT, kWh_room |-> RoundDiv(effectiveKwh * deltaT, 1000),
          mode |-> mode,
          assumptions |-> [ kWh_per_degC |-> RoundDiv(effectiveKwh, 100),
                            ac_cop |-> cop,
                            room_volume_m3 |-> ProfileOf(housing_type).volume,
                            furnishing_factor |-> ProfileOf(housing_type).k ] ]

(***************************************************************************)
(* Electricity rates (backend/logic/electricityRates.js).  Rates are in    *)
(* tenths of a cent per kWh (the code's 9.8 is 98).  A date is its         *)
(* getMonth() + 1, its getDay() (0 Sunday .. 6 Saturday) and its           *)
(* getHours().                                                             *)
(***************************************************************************)
Period(start, end, r, label) ==
    [start |-> start, end |-> end, rate |-> r, label |-> label]

\* Mutant of TOU_RATES: the rates of the superseded table (unnamed/part_001)
TOU_RATES_Superseded ==
    [ winter |->
        [ weekday |-> << Period(0, 7, 87, "Off-Peak"), Period(7, 11, 170, "On-Peak"),
                         Period(11, 17, 122, "Mid-Peak"), Period(17, 19, 170, "On-Peak"),
                         Period(19, 24, 87, "Off-Peak") >>,
          weekend |-> << Period(0, 24, 87, "Off-Peak") >> ],
      summer |->
        [ weekday |-> << Period(0, 7, 87, "Off-Peak"), Period(7, 11, 122, "Mid-Peak"),
                         Period(11, 17, 170, "On-Peak"), Period(17, 19, 122, "Mid-Peak"),
                         Period(19, 24, 87, "Off-Peak") >>,
          weekend |-> << Period(0, 24, 87, "Off-Peak") >> ] ]

TOU_RATES ==
    [ winter |->
        [ weekday |-> << Period(0, 7, 98, "Off-Peak"), Period(7, 11, 203, "On-Peak"),
                         Period(11, 17, 157, "Mid-Peak"), Period(17, 19, 203, "On-Peak"),
                         Period(19, 24, 98, "Off-Peak") >>,
          weekend |-> << Period(0, 24, 98, "Off-Peak") >> ],
      summer |->
        [ weekday |-> << Period(0, 7, 98, "Off-Peak"), Period(7, 11, 157, "Mid-Peak"),
                         Period(11, 17, 203, "On-Peak"), Period(17, 19, 157, "Mid-Peak"),
                         Period(19, 24, 98, "Off-Peak") >>,
          weekend |-> << Period(0, 24, 98, "Off-Peak") >> ] ]

\* Mutant of ULO_RATES: the weekend off-peak period ends at 19, as in the
\* superseded table, while the overnight period still starts at 23
ULO_RATES_Gap ==
    LET weekday == << Period(0, 7, 39, "Ultra-Low Overnight"),
                      Period(7, 16, 157, "Mid-Peak"),
                      Period(16, 21, 391, "On-Peak"),
                      Period(21, 23, 157, "Mid-Peak"),
                      Period(23, 24, 39, "Ultra-Low Overnight") >>
        weekend == << Period(0, 7, 39, "Ultra-Low Overnight"),
                      Period(7, 19, 98, "Weekend Off-Peak"),
                      Period(23, 24, 39, "Ultra-Low Overnight") >>
    IN  [ winter |-> [weekday |-> weekday, weekend |-> weekend],
          summer |-> [weekday |-> weekday, weekend |-> weekend] ]

ULO_RATES ==
    LET weekday == << Period(0, 7, 39, "Ultra-Low Overnight"),
                      Period(7, 16, 157, "Mid-Peak"),
                      Period(16, 21, 391, "On-Peak"),
                      Period(21, 23, 157, "Mid-Peak"),
                      Period(23, 24, 39, "Ultra-Low Overnight") >>
        weekend == << Period(0, 7, 39, "Ultra-Low Overnight"),
                      Period(7, 23, 98, "Weekend Off-Peak"),
                      Period(23, 24, 39, "Ultra-Low Overnight") >>
    IN  [ winter |-> [weekday |-> weekday, weekend |-> weekend],
          summer |-> [weekday |-> weekday, weekend |-> weekend] ]

TIERED_RATES ==
    [ winter |-> [tier1_threshold_kWh |-> 1000, tier1_rate |-> 103, tier2_rate |-> 125],
      summer |-> [tier1_threshold_kWh |-> 600,  tier1_rate |-> 103, tier2_rate |-> 125] ]

getSeason(d) == IF d.month >= 5 /\ d.month <= 10 THEN "summer" ELSE "winter"

isWeekend(d) == d.day = 0 \/ d.day = 6

\* the for loop of getTimeOfUseRate from the i-th period on, then the fallback
RECURSIVE PeriodLoop(_, _, _)
PeriodLoop(schedule, i, hour) ==
    IF i > Len(schedule)
    THEN [price_cents_per_kWh |-> schedule[1].rate, periodLabel |-> schedule[1].label]
    ELSE IF hour >= schedule[i].start /\ hour < schedule[i].end
         THEN [price_cents_per_kWh |-> schedule[i].rate,
               periodLabel |-> schedule[i].label]
         ELSE PeriodLoop(schedule, i + 1, hour)

getTimeOfUseRate(planRates, d) ==
    LET season == getSeason(d)
        dayType == IF isWeekend(d) THEN "weekend" ELSE "weekday"
    IN  PeriodLoop(planRates[season][dayType], 1, d.hour)

\* Mutant of getCurrentRate: the default plan is TIERED
getCurrentRateDefaultTiered(planType, d) ==
    LET season == getSeason(d)
    IN  IF planType \in {"TOU", "undefined"} THEN
            LET r == getTimeOfUseRate(TOU_RATES, d)
            IN  [ price_cents_per_kWh |-> r.price_cents_per_kWh,
                  periodLabel |-> r.periodLabel, planType |-> "TOU", season |-> season,
                  tier2_rate |-> NULL, tier1_threshold_kWh |-> NULL ]
        ELSE IF planType = "ULO" THEN
            LET r == getTimeOfUseRate(ULO_RATES, d)
            IN  [ price_cents_per_kWh |-> r.price_cents_per_kWh,
                  periodLabel |-> r.periodLabel, planType |-> "ULO", season |-> season,
                  tier2_rate |-> NULL, tier1_threshold_kWh |-> NULL ]
        ELSE
            [ price_cents_per_kWh |-> TIERED_RATES[season].tier1_rate,
              periodLabel |-> IF season = "winter" THEN "Tier 1 (up to 1000 kWh/mo)"
                              ELSE "Tier 1 (up to 600 kWh/mo)",
              planType |-> "TIERED", season |-> season,
              tier2_rate |-> TIERED_RATES[season].tier2_rate,
              tier1_threshold_kWh |-> TIERED_RATES[season].tier1_threshold_kWh ]

(***************************************************************************)
(* electricityRates.js getCurrentRate.  An absent planType ("undefined")   *)
(* takes the parameter default 'TOU'; every other value that is not one of *)
(* the three plans, null included, reaches the last line.  The two fields  *)
(* only a TIERED result has are NULL in the others.                        *)
(***************************************************************************)
RECURSIVE getCurrentRate(_, _)
getCurrentRate(planType, d) ==
    LET season == getSeason(d)
    IN  IF planType \in {"TOU", "undefined"} THEN
            LET r == getTimeOfUseRate(TOU_RATES, d)
            IN  [ price_cents_per_kWh |-> r.price_cents_per_kWh,
                  periodLabel |-> r.periodLabel, planType |-> "TOU", season |-> season,
                  tier2_rate |-> NULL, tier1_threshold_kWh |-> NULL ]
        ELSE IF planType = "ULO" THEN
            LET r == getTimeOfUseRate(ULO_RATES, d)
            IN  [ price_cents_per_kWh |-> r.price_cents_per_kWh,
                  periodLabel |-> r.periodLabel, planType |-> "ULO", season |-> season,
                  tier2_rate |-> NULL, tier1_threshold_kWh |-> NULL ]
        ELSE IF planType = "TIERED" THEN
            [ price_cents_per_kWh |-> TIERED_RATES[season].tier1_rate,
              periodLabel |-> IF season = "winter" THEN "Tier 1 (up to 1000 kWh/mo)"
                              ELSE "Tier 1 (up to 600 kWh/mo)",
              planType |-> "TIERED", season |-> season,
              tier2_rate |-> TIERED_RATES[season].tier2_rate,
              tier1_threshold_kWh |-> TIERED_RATES[season].tier1_threshold_kWh ]
        ELSE getCurrentRate("TOU", d)

(***************************************************************************)
(* The humidity estimator (estimateIndoorHumidity and                      *)
(* saturationVaporPressure).  Pressures are in thousandths of a hPa, the   *)
(* returned humidity_RH in tenths of a percent (the digit the code rounds  *)
(* to).  INF is the number Infinity, which passes both input checks.       *)
(*                                                                         *)
(* 6.112 * Math.exp((17.67 * tempC) / (tempC + 243.5)), tabulated at the   *)
(* temperatures used; at Infinity the quotient is Infinity / Infinity, so  *)
(* the result is NaN.                                                      *)
(***************************************************************************)
saturationVaporPressure(tempC) ==
    CASE tempC = -20 -> 1257
      [] tempC = 0   -> 6112
      [] tempC = 10  -> 12272
      [] tempC = 21  -> 24858
      [] tempC = 35  -> 56312
      [] tempC = INF -> NAN

\* Math.abs(indoorTempC - outdoorTempC) < limit; with an Infinity the
\* difference is Infinity or NaN and the comparison is false
DeltaBelow(indoorTempC, outdoorTempC, limit) ==
    /\ indoorTempC # INF
    /\ outdoorTempC # INF
    /\ Abs(indoorTempC - outdoorTempC) < limit

estimateIndoorHumidity(indoorTempC, outdoorTempC, outdoorRH) ==
    IF indoorTempC = NULL \/ outdoorTempC = NULL \/ outdoorRH = NULL THEN
        [humidity_RH |-> NULL, confidence |-> "NONE", method |-> "missing_data"]
    ELSE IF indoorTempC = NAN \/ outdoorTempC = NAN \/ outdoorRH = NAN THEN
        [humidity_RH |-> NULL, confidence |-> "NONE", method |-> "invalid_data"]
    ELSE
        LET moistureBoost == 8
            eSatOut == saturationVaporPressure(outdoorTempC)
            eSatIn == saturationVaporPressure(indoorTempC)
            \* estimatedRH is num / eSatIn percent; NaN when either pressure is
            isNaN == eSatOut = NAN \/ eSatIn = NAN
            num == outdoorRH * eSatOut + moistureBoost * eSatIn
            \* Math.max(0, Math.min(100, estimatedRH)), which keeps a NaN
            clamped == Max(0, Min(100 * eSatIn, num))
            confidence == IF DeltaBelow(indoorTempC, outdoorTempC, 5) THEN "HIGH"
                          ELSE IF DeltaBelow(indoorTempC, outdoorTempC, 15) THEN "MEDIUM"
                          ELSE "LOW"
        IN  [ humidity_RH |-> IF isNaN THEN NAN ELSE RoundDiv(10 * clamped, eSatIn),
              confidence |-> confidence, method |-> "magnus_estimate" ]

(***************************************************************************)
(* The weather cache (weather.js fetchWeather).  Time is in units of five  *)
(* minutes, so that CACHE_DURATION_MS, ten minutes, is 2.  A weather       *)
(* result is told from another by the time its fetch started (fetched);    *)
(* its fetchedAt is the time it was built, after both answers arrived.     *)
(* The spread { ...data, cached: true, stale: true } sets the two flags,   *)
(* an absent flag is FALSE.  The values of the mock result, random and     *)
(* clock-dependent, are not modelled.                                      *)
(***************************************************************************)
CACHE_DURATION == 2

\* (postalCode || 'default').trim().toUpperCase().replace(/\s/g, ''), on the
\* postal codes used
CacheKey(postalCode) ==
    CASE postalCode = "K7L 3N6" -> "K7L3N6"
      [] postalCode = "k7l3n6"  -> "K7L3N6"
      [] postalCode = "null"    -> "DEFAULT"

NoEntry == [data |-> [source |-> "none", fetched |-> NULL, fetchedAt |-> NULL,
                      cached |-> FALSE, stale |-> FALSE, mock |-> FALSE],
            timestamp |-> NULL]

\* the result built, at time at, from the two API answers of a fetch started
\* at time t
ApiResult(t, at) ==
    [source |-> "api", fetched |-> t, fetchedAt |-> at,
     cached |-> FALSE, stale |-> FALSE, mock |-> FALSE]

getMockWeather ==
    [source |-> "mock", fetched |-> NULL, fetchedAt |-> NULL,
     cached |-> FALSE, stale |-> FALSE, mock |-> TRUE]

\* a call that returned: its argument, the time it started (its now), the way
\* it ended, the cache entry of its key when it returned (before its own
\* write, if any) and its result
ReturnOf(postalCode, now, outcome, earlier, res) ==
    [postalCode |-> postalCode, now |-> now, outcome |-> outcome,
     earlier |-> earlier, res |-> res]

NoReturn == ReturnOf("none", NULL, "none", NoEntry, NoEntry.data)

WxIdle ==
    /\ apiKey = "your_api_key_here"
    /\ clock = 0
    /\ weatherCaches = [k \in {"K7L3N6", "DEFAULT"} |-> NoEntry]
    /\ pending = {}
    /\ ret = NoReturn

(***************************************************************************)
(* The inputs the recommendation engine is exercised on.  Day band 20-23,  *)
(* night band 17-19 (each night value present or not); indoor readings     *)
(* around both bands; outdoor values on either side of the indoor ones.    *)

(***************************************************************************)
Dry      == [pop |-> 0,  descRain |-> FALSE, humidity_RH |-> 70, temp_C |-> 20]
Mild     == [pop |-> 0,  descRain |-> FALSE, humidity_RH |-> 50, temp_C |-> 20]
RainPop  == [pop |-> 50, descRain |-> FALSE, humidity_RH |-> 80, temp_C |-> 12]
RainDesc == [pop |-> 40, descRain |-> TRUE,  humidity_RH |-> 80, temp_C |-> 12]

Forecasts == { <<>>, <<Mild, Dry>>, <<RainPop>>, <<Dry, RainDesc>> }

Inputs ==
    [ Tin   : {NULL, 16, 18, 25},
      Tout  : {NAN, 22, 30},
      RHin  : {NAN, 60, 61},
      RHout : {NULL, 50, 61},
      comfort_min : {20},
      comfort_max : {23},
      comfort_min_night : {NULL, 17},
      comfort_max_night : {NULL, 19},
      price_cents_per_kWh : {NULL, 5, 15},
      forecast : Forecasts,
      moldRiskLevel : {"LOW", "MEDIUM", "HIGH"} ]

Hours == {6, 7, 21, 22}

NoResult ==
    [ state |-> "none", confidence |-> "none", reasons |-> <<>>,
      proactive_tip |-> Tip("none", 0, NULL, NULL), humidity_tip |-> "none",
      comfort_period |-> "none" ]

NoCall == [hour |-> -1, res |-> NoResult]

NoRisk ==
    [ risk_level |-> "none", risk_score |-> 0,
      stats |-> [ minutes_over_60 |-> 0, minutes_over_70 |-> 0, minutes_60_70 |-> 0,
                  max_consecutive_over_70 |-> 0, current_humidity |-> NULL,
                  readingCount |-> 0 ] ]

MoldIdle == readings = <<>> /\ interval = 1 /\ risk = NoRisk

NoCost ==
    [ cost_heat |-> 0, cost_ac |-> 0, cost_window |-> 0, hvac_cost |-> 0,
      savings |-> 0, deltaT |-> 0, kWh_room |-> 0, mode |-> "none",
      assumptions |-> [ kWh_per_degC |-> 0, ac_cop |-> 0, room_volume_m3 |-> 0,
                        furnishing_factor |-> 0 ] ]

NoEstimate == [Tin |-> NULL, target |-> NULL, kWh_per_degC |-> NULL, res |-> NoCost]

NoDate == [month |-> 0, day |-> 0, hour |-> 0]

NoRate ==
    [ price_cents_per_kWh |-> NULL, periodLabel |-> "none", planType |-> "none",
      season |-> "none", tier2_rate |-> NULL, tier1_threshold_kWh |-> NULL ]

RateIdle == plan = "TOU" /\ date = NoDate /\ rate = NoRate

NoHumidity == [humidity_RH |-> NULL, confidence |-> "none", method |-> "none"]

EstIdle ==
    /\ estArgs = [indoorTempC |-> NULL, outdoorTempC |-> NULL, outdoorRH |-> NULL]
    /\ est = NoHumidity

CostIdle ==
    /\ costFixed = [housing_type |-> "undefined", price_cents_per_kWh |-> 10,
                    ac_cop |-> NULL]
    /\ costLast = NoEstimate
    /\ costPrev = NoEstimate

(***************************************************************************)
(* The two modules with a periodic job: the condition monitor              *)
(* (conditionMonitor.js, job checkConditions) and the daily-summary        *)
(* updater (dailySummaryCron.js, job runUpdate).  Before start() a module  *)
(* has no timer of either kind.                                            *)
(***************************************************************************)
Modules == {"monitor", "cron"}

TimerIdle ==
    /\ timer = [m \in Modules |-> NULL]
    /\ timeouts = [m \in Modules |-> 0]
    /\ intervals = [m \in Modules |-> {}]
    /\ stopSeen = [m \in Modules |-> FALSE]
    /\ lastEvent = [m \in Modules |-> "none"]

(***************************************************************************)
(* The two callers of getRecommendation: checkConditions of the condition  *)
(* monitor and the GET /api/dashboard handler.  A user row has the columns *)
(* the handlers read (a column the table lacks reads as undefined, NULL    *)
(* here); a reading row has temp_C and humidity_RH, either may be null.    *)
(* weather is what fetchWeather resolved to, currentRate what              *)
(* getCurrentRate returned, hr the local hour.                             *)
(***************************************************************************)
NoReading == [id |-> NULL, temp_C |-> NULL, humidity_RH |-> NULL]

\* estimateIndoorHumidity gives tenths of a percent, the engine's humidities
\* here are whole percents: the estimate is rounded up, which keeps both
\* comparisons the engine makes with it (RHin > 60, and RHout < RHin for a
\* whole RHout)
WholePercent(tenths) == IF tenths = NAN THEN NAN ELSE (tenths + 9) \div 10

\* conditionMonitor.js lines 66-73, part_004 lines 134-148
IndoorHumidity(Tin, RHin, Tout, RHout) ==
    IF RHin = NULL /\ Tout # NULL /\ RHout # NULL /\ Tin # NULL
    THEN LET estimate == estimateIndoorHumidity(Tin, Tout, RHout)
         IN  IF estimate.humidity_RH # NULL
             THEN WholePercent(estimate.humidity_RH)
             ELSE RHin
    ELSE RHin

\* conditionMonitor.js lines 65-73 and 76-91, with the mold risk of line 75
\* given: the band is chosen by the caller and passed as the day band
recommendationWith(user, latest, moldRisk, weather, currentRate, hr) ==
    LET Tin == latest.temp_C
        Tout == weather.current.temp_C
        RHout == weather.current.humidity_RH
        RHin == IndoorHumidity(Tin, latest.humidity_RH, Tout, RHout)
        band == getComfortBand(user, hr)
    IN  getRecommendation(
            [ Tin |-> Tin, RHin |-> RHin, Tout |-> Tout, RHout |-> RHout,
              comfort_min |-> band.min, comfort_max |-> band.max,
              comfort_min_night |-> NULL, comfort_max_night |-> NULL,
              price_cents_per_kWh |-> currentRate.price_cents_per_kWh,
              forecast |-> weather.forecast,
              moldRiskLevel |-> moldRisk.risk_level ], hr)

\* conditionMonitor.js lines 65-91
monitorRecommendation(user, latest, last24h, weather, currentRate, hr) ==
    recommendationWith(user, latest, computeMoldRisk(last24h, 1), weather,
                       currentRate, hr)

\* part_004 lines 133-162: the user's day band is passed, the night values
\* are not
dashboardRecommendation(user, latestReading, last24h, weather, currentRate, hr) ==
    LET Tin == IF latestReading # NoReading THEN latestReading.temp_C ELSE 21
        Tout == weather.current.temp_C
        RHout == weather.current.humidity_RH
        RHin == IndoorHumidity(Tin,
                               IF latestReading # NoReading
                               THEN latestReading.humidity_RH ELSE NULL,
                               Tout, RHout)
        moldRisk == computeMoldRisk(last24h, 1)
    IN  getRecommendation(
            [ Tin |-> Tin, RHin |-> RHin, Tout |-> Tout, RHout |-> RHout,
              comfort_min |-> user.comfort_min, comfort_max |-> user.comfort_max,
              comfort_min_night |-> NULL, comfort_max_night |-> NULL,
              price_cents_per_kWh |-> currentRate.price_cents_per_kWh,
              forecast |-> weather.forecast,
              moldRiskLevel |-> moldRisk.risk_level ], hr)

NoEnv ==
    [ user |-> [comfort_min |-> 20, comfort_max |-> 23,
                comfort_min_night |-> NULL, comfort_max_night |-> NULL],
      latest |-> NoReading, last24h |-> <<>>,
      weather |-> [current |-> [temp_C |-> NULL, humidity_RH |-> NULL],
                   forecast |-> <<>>],
      currentRate |-> [price_cents_per_kWh |-> NULL, periodLabel |-> "none"],
      hour |-> 0 ]

CmpIdle == env = NoEnv /\ monRec = NoResult /\ dashRec = NoResult

(***************************************************************************)
(* The condition monitor's module state.  Time is in units of 30 minutes,  *)
(* so that MOLD_ALERT_COOLDOWN, one hour, is 2; the process starts at a    *)
(* Date.now() that is more than the cooldown past the epoch, where         *)
(* lastMoldAlert starts.                                                   *)
(***************************************************************************)
MOLD_ALERT_COOLDOWN == 2

ProcessStart == MOLD_ALERT_COOLDOWN + 1

NoCheck == "none"

MonIdle ==
    /\ time = ProcessStart
    /\ lastState = "null"
    /\ lastMoldAlert = 0
    /\ running = {}
    /\ notifications = <<>>
    /\ checked = NoCheck

LateIdle == TimerIdle /\ CmpIdle /\ MonIdle

Init ==
    /\ inp \in Inputs
    /\ last = NoCall
    /\ prev = NoCall
    /\ MoldIdle
    /\ CostIdle
    /\ RateIdle
    /\ EstIdle
    /\ WxIdle
    /\ LateIdle

(***************************************************************************)
(* One call of getRecommendation on the input struct, at the hour the      *)
(* clock shows when getComfortBand reads it.                               *)
(***************************************************************************)
Call(h) ==
    /\ last' = [hour |-> h, res |-> getRecommendation(inp, h)]
    /\ prev' = last
    /\ UNCHANGED <<inp, moldVars, costVars, rateVars, estVars, wxVars, lateVars>>

Next == \E h \in Hours : Call(h)

Spec == Init /\ [][Next]_vars

(***************************************************************************)
(* The vocabulary of the claims about getRecommendation, written from the  *)
(* argument struct inp and from what the calls returned.                   *)
(***************************************************************************)
Called == last.hour # -1

CalledTwice == prev.hour # -1

Known(x) == x # NULL /\ x # NAN

\* Tin and Tout as the engine takes them (21 and 10 stand in for null/NaN)
TinUsed == IF Known(inp.Tin) THEN inp.Tin ELSE 21

ToutUsed == IF Known(inp.Tout) THEN inp.Tout ELSE 10

RHinOver60 == Known(inp.RHin) /\ inp.RHin > 60

OutdoorDrier == Known(inp.RHin) /\ Known(inp.RHout) /\ inp.RHout < inp.RHin

OutdoorWetter == Known(inp.RHin) /\ Known(inp.RHout) /\ inp.RHout >= inp.RHin

RainInForecast ==
    \E i \in DOMAIN inp.forecast : inp.forecast[i].pop > 40 \/ inp.forecast[i].descRain

NightHour(h) == h \in (22..23) \cup (0..6)

NightBandGiven == inp.comfort_min_night # NULL /\ inp.comfort_max_night # NULL

\* the band the last call reports to have selected
SelectedMin ==
    IF last.res.comfort_period = "night" THEN inp.comfort_min_night ELSE inp.comfort_min

SelectedMax ==
    IF last.res.comfort_period = "night" THEN inp.comfort_max_night ELSE inp.comfort_max

\* |T - target| with target the midpoint of the selected band, doubled
Distance2(t) == Abs(2 * t - (SelectedMin + SelectedMax))

MoldOverrideFires ==
    inp.moldRiskLevel = "HIGH" /\ ~OutdoorWetter /\ ~RainInForecast

Returned(state, confidence) ==
    last.res.state = state /\ last.res.confidence = confidence

SameOutput(a, b) ==
    /\ a.state = b.state
    /\ a.confidence = b.confidence
    /\ Len(a.reasons) = Len(b.reasons)

(***************************************************************************)
(* C1.  Mold-risk override: whenever moldRiskLevel is HIGH, the forecast   *)
(* holds no rain and the outdoor air is drier or its dryness is unknown,   *)
(* the call returns OPEN_WINDOW with confidence HIGH, whatever Tin, Tout   *)
(* and the comfort band are.                                               *)
(***************************************************************************)
C1_MoldOverride ==
    (Called /\ inp.moldRiskLevel = "HIGH" /\ ~RainInForecast /\ ~OutdoorWetter)
        => Returned("OPEN_WINDOW", "HIGH")

\* the override on a numeric Tin inside the selected (night) band, dryness unknown
C1_Witness ==
    /\ Called /\ inp.moldRiskLevel = "HIGH" /\ ~RainInForecast
    /\ inp.RHout = NULL
    /\ inp.Tin = 18 /\ last.res.comfort_period = "night"
    /\ SelectedMin <= inp.Tin /\ inp.Tin <= SelectedMax
    /\ Returned("OPEN_WINDOW", "HIGH")

(***************************************************************************)
(* C2 as stated.  Two calls on the same input struct return the same       *)
(* state, confidence and number of reasons, whenever they are made.        *)
(***************************************************************************)
C2_DeterministicAlways == CalledTwice => SameOutput(prev.res, last.res)

(***************************************************************************)
(* C2 amended.  Two calls on the same input struct return the same state,  *)
(* confidence and number of reasons when they are made in the same period  *)
(* of the day (both at an hour in 22..6, or both at an hour in 7..21), or  *)
(* when the struct does not give both night values.                        *)
(***************************************************************************)
C2_DeterministicWithinPeriod ==
    (CalledTwice /\ (NightHour(prev.hour) = NightHour(last.hour) \/ ~NightBandGiven))
        => SameOutput(prev.res, last.res)

\* two calls at different night hours, with a night band that changes the answer
C2_Witness ==
    /\ CalledTwice /\ NightBandGiven
    /\ prev.hour = 22 /\ last.hour = 6
    /\ inp.Tin = 18 /\ inp.moldRiskLevel = "LOW"
    /\ last.res.state = "DO_NOTHING" /\ prev.res.state = "DO_NOTHING"

(***************************************************************************)
(* C3.  When Tin is inside the selected comfort band and moldRiskLevel is  *)
(* not HIGH, the call returns OPEN_WINDOW with confidence MEDIUM if        *)
(* RHin > 60, RHout < RHin and no rain is expected, and DO_NOTHING with    *)
(* confidence HIGH otherwise (so never USE_AC or USE_HEAT).                *)
(***************************************************************************)
C3_Comfortable ==
    (Called /\ SelectedMin <= TinUsed /\ TinUsed <= SelectedMax
            /\ inp.moldRiskLevel # "HIGH")
        => IF RHinOver60 /\ OutdoorDrier /\ ~RainInForecast
           THEN Returned("OPEN_WINDOW", "MEDIUM")
           ELSE Returned("DO_NOTHING", "HIGH")

\* comfortable, humid, drier outside, no rain: ventilate
C3_Witness ==
    /\ Called /\ inp.Tin = 18 /\ last.res.comfort_period = "night"
    /\ inp.moldRiskLevel = "MEDIUM"
    /\ inp.RHin = 61 /\ inp.RHout = 50 /\ ~RainInForecast
    /\ Returned("OPEN_WINDOW", "MEDIUM")

(***************************************************************************)
(* C4.  When Tin is above the selected band and the mold override does not *)
(* fire, the call returns OPEN_WINDOW iff Tout < Tin, Tout is closer to    *)
(* the target than Tin and no rain is expected, with confidence HIGH when  *)
(* the outdoor air is drier or its dryness is unknown and MEDIUM when      *)
(* RHout >= RHin; in every other such case it returns USE_AC with          *)
(* confidence HIGH, and then humidity_tip is a tip exactly when RHin > 60  *)
(* and null otherwise.                                                     *)
(***************************************************************************)
C4_TooHot ==
    (Called /\ TinUsed > SelectedMax /\ ~MoldOverrideFires)
        => IF ToutUsed < TinUsed /\ Distance2(ToutUsed) < Distance2(TinUsed)
                /\ ~RainInForecast
           THEN Returned("OPEN_WINDOW", IF OutdoorWetter THEN "MEDIUM" ELSE "HIGH")
           ELSE /\ Returned("USE_AC", "HIGH")
                /\ last.res.humidity_tip = (IF RHinOver60 THEN "tip" ELSE "null")

\* too hot, outdoor cooler and closer but not drier: a MEDIUM open window
C4_Witness ==
    /\ Called /\ inp.Tin = 25 /\ inp.Tout = 22 /\ inp.comfort_max = 23
    /\ last.res.comfort_period = "day"
    /\ inp.RHin = 61 /\ inp.RHout = 61 /\ inp.moldRiskLevel = "HIGH"
    /\ Returned("OPEN_WINDOW", "MEDIUM")

(***************************************************************************)
(* C5.  When Tin is below the selected band and the mold override does not *)
(* fire, the call returns OPEN_WINDOW with confidence MEDIUM iff           *)
(* Tout > Tin, Tout is closer to the target than Tin and no rain is        *)
(* expected, and USE_HEAT with confidence HIGH otherwise; USE_HEAT is      *)
(* returned for no input with Tin at or above the band's minimum.          *)
(***************************************************************************)
C5_TooCold ==
    /\ (Called /\ TinUsed < SelectedMin /\ ~MoldOverrideFires)
        => IF ToutUsed > TinUsed /\ Distance2(ToutUsed) < Distance2(TinUsed)
                /\ ~RainInForecast
           THEN Returned("OPEN_WINDOW", "MEDIUM")
           ELSE Returned("USE_HEAT", "HIGH")
    /\ (Called /\ last.res.state = "USE_HEAT") => TinUsed < SelectedMin

\* too cold at night, outdoor warmer but farther from the night target: heat
C5_Witness ==
    /\ Called /\ inp.Tin = 16 /\ inp.Tout = 22
    /\ last.res.comfort_period = "night" /\ SelectedMin = 17
    /\ ~RainInForecast /\ inp.moldRiskLevel = "LOW"
    /\ Returned("USE_HEAT", "HIGH")

(***************************************************************************)
(* C6.  Every call, also on null/NaN Tin, Tout, RHin, RHout, an invalid    *)
(* price or an empty forecast, returns without a TypeError exactly one of  *)
(* the four states, one of the three confidences and at least one reason.  *)
(***************************************************************************)
C6_Total ==
    Called =>
        /\ last.res.state \in {"OPEN_WINDOW", "USE_AC", "USE_HEAT", "DO_NOTHING"}
        /\ last.res.confidence \in {"LOW", "MEDIUM", "HIGH"}
        /\ Len(last.res.reasons) >= 1

\* no temperature, humidity or price known and an empty forecast: a call answers
C6_Witness ==
    /\ Called /\ inp.Tin = NULL /\ inp.Tout = NAN /\ inp.RHin = NAN /\ inp.RHout = NULL
    /\ inp.price_cents_per_kWh = NULL /\ inp.forecast = <<>>
    /\ last.res.state = "DO_NOTHING" /\ Len(last.res.reasons) = 1

(***************************************************************************)
(* C7.  Comfort-band selection: the call uses the night band and reports   *)
(* comfort_period night iff its hour is in 22..23 or 0..6 and both night   *)
(* values are given; in every other case, also with one night value only,  *)
(* it uses the day band and reports day; the target is the midpoint of the *)
(* band used (twice the target is min + max).                              *)
(***************************************************************************)
C7_BandSelection ==
    Called =>
        LET d == Derived(inp, last.hour)
            night == NightHour(last.hour) /\ NightBandGiven
        IN  /\ last.res.comfort_period = (IF night THEN "night" ELSE "day")
            /\ d.band.min = (IF night THEN inp.comfort_min_night ELSE inp.comfort_min)
            /\ d.band.max = (IF night THEN inp.comfort_max_night ELSE inp.comfort_max)
            /\ d.target2 = d.band.min + d.band.max

\* with both night values given, the call at 21 h used the day band and the
\* call at 22 h the night band
C7_Witness ==
    /\ CalledTwice /\ last.hour = 22 /\ prev.hour = 21
    /\ inp.comfort_min_night = 17 /\ inp.comfort_max_night = 19
    /\ last.res.comfort_period = "night" /\ prev.res.comfort_period = "day"

(***************************************************************************)
(* C22.  No call returns OPEN_WINDOW when rain is expected: whenever the   *)
(* forecast has an entry with pop > 0.4 or with a description containing   *)
(* 'rain', the state returned is USE_AC, USE_HEAT or DO_NOTHING, also when *)
(* moldRiskLevel is HIGH.                                                  *)
(***************************************************************************)
C22_NoWindowInRain ==
    (Called /\ RainInForecast)
        => last.res.state \in {"USE_AC", "USE_HEAT", "DO_NOTHING"}

\* high mold risk, cooler and drier air outside, rain only in a description:
\* the call answers USE_AC
C22_Witness ==
    /\ Called /\ inp.moldRiskLevel = "HIGH"
    /\ inp.forecast = <<Dry, RainDesc>>
    /\ inp.Tin = 25 /\ inp.Tout = 22 /\ inp.RHin = 61 /\ inp.RHout = 50
    /\ last.res.comfort_period = "day"
    /\ last.res.state = "USE_AC"

\* ventilation is blocked: rain is expected, or the outdoor air is known not
\* to be drier
VentilationBlocked == RainInForecast \/ OutdoorWetter

(***************************************************************************)
(* C23.  With numeric comfort bounds, min <= max, a call returns the       *)
(* fallback result DO_NOTHING with confidence LOW exactly when Tin is      *)
(* inside the selected comfort band, moldRiskLevel is HIGH and ventilation *)
(* is blocked; no other input reaches the fallback.                        *)
(***************************************************************************)
C23_FallbackExactly ==
    (Called /\ Known(SelectedMin) /\ Known(SelectedMax) /\ SelectedMin <= SelectedMax)
        => (Returned("DO_NOTHING", "LOW")
              <=> /\ SelectedMin <= TinUsed /\ TinUsed <= SelectedMax
                  /\ inp.moldRiskLevel = "HIGH"
                  /\ VentilationBlocked)

\* inside the night band, high mold risk, no rain, outdoor air as humid as
\* indoors: the fallback answers
C23_Witness ==
    /\ Called /\ inp.Tin = 18 /\ last.res.comfort_period = "night"
    /\ inp.moldRiskLevel = "HIGH" /\ ~RainInForecast
    /\ inp.RHin = 61 /\ inp.RHout = 61
    /\ Returned("DO_NOTHING", "LOW")
    /\ last.res.reasons = <<"borderline">>

\* the prices a second caller may pass in place of inp's: missing, NaN, and
\* values on and around the thresholds 5 and 15
OtherPrices == {NULL, NAN, 0, 5, 6, 10, 14, 15, 30}

\* the call made at the same hour on inp with another price
AtPrice(p) == getRecommendation([inp EXCEPT !.price_cents_per_kWh = p], last.hour)

\* two results agree on everything but the reasons
SameButReasons(a, b) ==
    /\ a.state = b.state
    /\ a.confidence = b.confidence
    /\ a.proactive_tip = b.proactive_tip
    /\ a.humidity_tip = b.humidity_tip
    /\ a.comfort_period = b.comfort_period

MaxReadings == 5

Humidities == {NULL, 60, 61, 70, 71}

Intervals == {1, 30, 90, 100}

RecIdle ==
    /\ inp = CHOOSE i \in Inputs : TRUE
    /\ last = NoCall
    /\ prev = NoCall

MoldInit ==
    /\ readings = <<>>
    /\ interval = 1
    /\ risk = NoRisk
    /\ RecIdle
    /\ CostIdle
    /\ RateIdle
    /\ EstIdle
    /\ WxIdle
    /\ LateIdle

AddReading(rh) ==
    /\ Len(readings) < MaxReadings
    /\ readings' = Append(readings, [humidity_RH |-> rh])
    /\ risk' = NoRisk
    /\ UNCHANGED <<interval, recVars, costVars, rateVars, estVars, wxVars, lateVars>>

ComputeRisk(iv) ==
    /\ interval' = iv
    /\ risk' = computeMoldRisk(readings, iv)
    /\ UNCHANGED <<readings, recVars, costVars, rateVars, estVars, wxVars, lateVars>>

MoldNext ==
    \/ \E rh \in Humidities : AddReading(rh)
    \/ \E iv \in Intervals : ComputeRisk(iv)

MoldSpec == MoldInit /\ [][MoldNext]_vars

(***************************************************************************)
(* The vocabulary of the claims about computeMoldRisk, written from the    *)
(* readings and from the result of the request.                            *)
(***************************************************************************)
RiskComputed == risk.risk_level # "none"

IsMeasured(r) == r.humidity_RH # NULL

\* the humidities of the readings that have one, in order
Measured == SelectSeq(readings, IsMeasured)

Over70(i) == Measured[i].humidity_RH > 70

From60To70(i) == Measured[i].humidity_RH > 60 /\ Measured[i].humidity_RH <= 70

\* r is the integer nearest to n / d, a half rounding up
IsRounded(r, n, d) == 2 * d * r <= 2 * n + d /\ 2 * n + d < 2 * d * (r + 1)

\* the length of the longest run of adjacent measured readings over 70
LongestRunOver70 ==
    LET runs == { <<i, j>> \in (DOMAIN Measured) \X (DOMAIN Measured) :
                    i <= j /\ \A k \in i..j : Over70(k) }
    IN  IF runs = {} THEN 0
        ELSE CHOOSE n \in 1..Len(Measured) :
                /\ \E p \in runs : p[2] - p[1] + 1 = n
                /\ \A p \in runs : p[2] - p[1] + 1 <= n

(***************************************************************************)
(* C8.  For a non-empty set of valid readings the level is HIGH iff        *)
(* minutes_over_70 > 180 or max_consecutive_over_70 > 90, MEDIUM iff that  *)
(* fails and minutes_over_60 > 60, LOW otherwise; the score is the one of  *)
(* the matched rule: min(100, 60 + round(minutes_over_70 / 360 * 40)),     *)
(* min(59, 25 + round(minutes_over_60 / 240 * 35)) or                      *)
(* min(24, round(minutes_over_60 / 60 * 24)).                              *)
(***************************************************************************)
C8_LevelRule ==
    (RiskComputed /\ Len(Measured) > 0) =>
        LET s == risk.stats
            high == s.minutes_over_70 > 180 \/ s.max_consecutive_over_70 > 90
            medium == ~high /\ s.minutes_over_60 > 60
        IN  /\ risk.risk_level =
                  (IF high THEN "HIGH" ELSE IF medium THEN "MEDIUM" ELSE "LOW")
            /\ \E r \in 0..100 :
                  IF high THEN
                      /\ IsRounded(r, s.minutes_over_70 * 40, 360)
                      /\ risk.risk_score = Min(100, 60 + r)
                  ELSE IF medium THEN
                      /\ IsRounded(r, s.minutes_over_60 * 35, 240)
                      /\ risk.risk_score = Min(59, 25 + r)
                  ELSE
                      /\ IsRounded(r, s.minutes_over_60 * 24, 60)
                      /\ risk.risk_score = Min(24, r)

\* HIGH by the cumulative rule alone: 270 minutes over 70 in runs of 90
C8_Witness ==
    /\ RiskComputed /\ risk.risk_level = "HIGH"
    /\ risk.stats.minutes_over_70 = 270
    /\ risk.stats.max_consecutive_over_70 = 90
    /\ risk.risk_score = 90

(***************************************************************************)
(* C9.  Every reading with a humidity falls in exactly one band, with      *)
(* strict thresholds: minutes_over_70 is intervalMinutes times the number  *)
(* of readings with RH > 70, minutes_60_70 is intervalMinutes times the    *)
(* number with 60 < RH <= 70, and minutes_over_60 is their sum; so a       *)
(* reading of exactly 60 adds nothing and one of exactly 70 adds to        *)
(* minutes_60_70 only.                                                     *)
(***************************************************************************)
C9_Bands ==
    RiskComputed =>
        LET s == risk.stats
        IN  /\ s.minutes_over_70 =
                  interval * Cardinality({i \in DOMAIN Measured : Over70(i)})
            /\ s.minutes_60_70 =
                  interval * Cardinality({i \in DOMAIN Measured : From60To70(i)})
            /\ s.minutes_over_60 = s.minutes_over_70 + s.minutes_60_70

\* the boundary readings 60, 61, 70, 71 and a missing one, at 30-minute intervals
C9_Witness ==
    /\ RiskComputed /\ interval = 30
    /\ readings = << [humidity_RH |-> 60], [humidity_RH |-> 61], [humidity_RH |-> NULL],
                     [humidity_RH |-> 70], [humidity_RH |-> 71] >>
    /\ risk.stats.minutes_over_60 = 90
    /\ risk.stats.minutes_over_70 = 30

(***************************************************************************)
(* C10.  max_consecutive_over_70 is intervalMinutes times the length of    *)
(* the longest run of adjacent readings with RH > 70 among the readings    *)
(* that have a humidity: a reading with RH <= 70 ends a run, a reading     *)
(* without humidity is skipped and ends none; and it never exceeds         *)
(* minutes_over_70.                                                        *)
(***************************************************************************)
C10_LongestRun ==
    RiskComputed =>
        /\ risk.stats.max_consecutive_over_70 = interval * LongestRunOver70
        /\ risk.stats.max_consecutive_over_70 <= risk.stats.minutes_over_70

\* a missing reading inside a run does not end it, a reading of 70 does
C10_Witness ==
    /\ RiskComputed /\ interval = 100
    /\ readings = << [humidity_RH |-> 71], [humidity_RH |-> NULL], [humidity_RH |-> 71],
                     [humidity_RH |-> 70], [humidity_RH |-> 71] >>
    /\ risk.stats.max_consecutive_over_70 = 200
    /\ risk.stats.minutes_over_70 = 300

(***************************************************************************)
(* C11.  The score is an integer from 0 to 100 and lies in the range of    *)
(* the level returned with it: 60..100 for HIGH, 25..59 for MEDIUM, 0..24  *)
(* for LOW, and exactly 0 for UNKNOWN.                                     *)
(***************************************************************************)
C11_ScoreRange ==
    RiskComputed =>
        /\ risk.risk_score \in 0..100
        /\ risk.risk_level \in {"HIGH", "MEDIUM", "LOW", "UNKNOWN"}
        /\ risk.risk_level = "HIGH" => risk.risk_score \in 60..100
        /\ risk.risk_level = "MEDIUM" => risk.risk_score \in 25..59
        /\ risk.risk_level = "LOW" => risk.risk_score \in 0..24
        /\ risk.risk_level = "UNKNOWN" => risk.risk_score = 0

\* MEDIUM with 500 minutes over 60: 25 + round(500 / 240 * 35) is 98, capped at 59
C11_Witness ==
    /\ RiskComputed /\ risk.risk_level = "MEDIUM"
    /\ risk.stats.minutes_over_60 = 500
    /\ risk.risk_score = 59

(***************************************************************************)
(* C12.  When no reading has a humidity (no readings, or all of them       *)
(* without one) the result is UNKNOWN with score 0 and every minute        *)
(* counter 0, never LOW; and UNKNOWN is the result of no list that has at  *)
(* least one reading with a humidity.                                      *)
(***************************************************************************)
C12_UnknownIffEmpty ==
    RiskComputed =>
        /\ Len(Measured) = 0 =>
              /\ risk.risk_level = "UNKNOWN"
              /\ risk.risk_score = 0
              /\ risk.stats.minutes_over_60 = 0
              /\ risk.stats.minutes_over_70 = 0
              /\ risk.stats.minutes_60_70 = 0
              /\ risk.stats.max_consecutive_over_70 = 0
        /\ Len(Measured) > 0 => risk.risk_level # "UNKNOWN"

\* two readings arrived, neither with a humidity
C12_Witness ==
    /\ RiskComputed /\ risk.risk_level = "UNKNOWN"
    /\ readings = << [humidity_RH |-> NULL], [humidity_RH |-> NULL] >>

\* the levels in their order
LevelRank(level) ==
    CASE level = "UNKNOWN" -> 0 [] level = "LOW" -> 1
      [] level = "MEDIUM" -> 2 [] level = "HIGH" -> 3

\* the readings without the last one
EarlierReadings == SubSeq(readings, 1, Len(readings) - 1)

\* the result a is nowhere above the result b
NotAbove(a, b) ==
    /\ LevelRank(a.risk_level) <= LevelRank(b.risk_level)
    /\ a.risk_score <= b.risk_score
    /\ a.stats.minutes_over_60 <= b.stats.minutes_over_60
    /\ a.stats.minutes_over_70 <= b.stats.minutes_over_70
    /\ a.stats.minutes_60_70 <= b.stats.minutes_60_70
    /\ a.stats.max_consecutive_over_70 <= b.stats.max_consecutive_over_70

(***************************************************************************)
(* C26.  Mold risk is monotone under appending: for a fixed positive       *)
(* interval, the result for a sequence followed by one more reading has a  *)
(* risk_level (UNKNOWN < LOW < MEDIUM < HIGH), a risk_score and counters   *)
(* minutes_over_60, minutes_over_70, minutes_60_70 and                     *)
(* max_consecutive_over_70 that are each not lower than for the sequence   *)
(* alone.                                                                  *)
(***************************************************************************)
C26_MonotoneUnderAppend ==
    (RiskComputed /\ Len(readings) >= 1)
        => NotAbove(computeMoldRisk(EarlierReadings, interval), risk)

\* a long run over 70 followed by a reading of 61: the level stays HIGH and
\* the longest run stays what it was
C26_Witness ==
    /\ RiskComputed /\ Len(readings) = 3 /\ interval = 90
    /\ readings[1].humidity_RH = 71 /\ readings[2].humidity_RH = 71
    /\ readings[3].humidity_RH = 61
    /\ risk.risk_level = "HIGH"
    /\ risk.stats.max_consecutive_over_70 = 180
    /\ computeMoldRisk(EarlierReadings, interval).stats.max_consecutive_over_70 = 180

(***************************************************************************)
(* The cost machine.  A caller holds a housing type, a price and an AC     *)
(* coefficient and asks for estimates at varying indoor temperatures and   *)
(* targets; the kWh_per_degC argument is the caller's to pass or not (the  *)
(* dashboard passes the user's room_kwh_per_degC, the daily summary none). *)
(***************************************************************************)
HousingTypes == {"undefined", "dorm", "apartment", "house", "basement", "other", "condo"}

CostFixed ==
    [ housing_type : HousingTypes, price_cents_per_kWh : {10, 15}, ac_cop : {NULL, 30} ]

CostTin == {19, 22, 24, 26}

CostTarget == {21, 22}

CostOverride == {NULL, 0, 100000}

CostInit ==
    /\ costFixed \in CostFixed
    /\ costLast = NoEstimate
    /\ costPrev = NoEstimate
    /\ RecIdle
    /\ MoldIdle
    /\ RateIdle
    /\ EstIdle
    /\ WxIdle
    /\ LateIdle

Estimate(Tin, target, kWh_per_degC) ==
    /\ costLast' = [ Tin |-> Tin, target |-> target, kWh_per_degC |-> kWh_per_degC,
                     res |-> estimateCost(Tin, target, costFixed.price_cents_per_kWh,
                                          kWh_per_degC, costFixed.ac_cop,
                                          costFixed.housing_type) ]
    /\ costPrev' = costLast
    /\ UNCHANGED <<costFixed, recVars, moldVars, rateVars, estVars, wxVars, lateVars>>

CostNext ==
    \E Tin \in CostTin, target \in CostTarget, k \in CostOverride :
        Estimate(Tin, target, k)

CostSpec == CostInit /\ [][CostNext]_vars

(***************************************************************************)
(* The vocabulary of the claims about estimateCost.                        *)
(***************************************************************************)
Estimated == costLast.res.mode # "none"

EstimatedTwice == costPrev.res.mode # "none"

\* |Tin - target| of a call, from its arguments
Gap(call) == Abs(call.Tin - call.target)

\* the side of the target the indoor temperature of a call is on
Side(call) ==
    IF call.Tin > call.target THEN "above"
    ELSE IF call.Tin < call.target THEN "below" ELSE "at"

\* the profile table read by the name alone
SelectedProfile ==
    IF costFixed.housing_type \in {"dorm", "apartment", "house", "basement", "other"}
    THEN HOUSING_PROFILES[costFixed.housing_type]
    ELSE HOUSING_PROFILES["apartment"]

\* furnishing_factor_k x 0.000335 x room_volume_m3, in millionths of a kWh
ProfileEnergy == SelectedProfile.k * 335 * SelectedProfile.volume

\* the three outputs named by C14, for an energy per degree e
UsesEnergy(e) ==
    LET dT == Gap(costLast)
        cop == costLast.res.assumptions.ac_cop
    IN  /\ IsRounded(costLast.res.kWh_room, e * dT, 1000)
        /\ IsRounded(costLast.res.cost_heat,
                     e * dT * costFixed.price_cents_per_kWh, 10000)
        /\ IsRounded(costLast.res.cost_ac,
                     e * dT * costFixed.price_cents_per_kWh, cop * 1000)
        /\ IsRounded(costLast.res.assumptions.kWh_per_degC, e, 100)

(***************************************************************************)
(* C13 as stated.  With housing_type, price and ac_cop fixed, of any two   *)
(* calls the one with the smaller |Tin - target| returns savings no        *)
(* larger than the other.                                                  *)
(***************************************************************************)
C13_MonotoneAlways ==
    (EstimatedTwice /\ Gap(costPrev) <= Gap(costLast)) =>
        costPrev.res.savings <= costLast.res.savings

(***************************************************************************)
(* C13, amended.  With housing_type, price and ac_cop fixed, of two calls  *)
(* that pass the same kWh_per_degC and have the indoor temperature on the  *)
(* same side of the target (or the first at the target), the one with the  *)
(* smaller |Tin - target| returns savings no larger than the other.        *)
(***************************************************************************)
C13_MonotoneSameSide ==
    ( /\ EstimatedTwice
      /\ Gap(costPrev) <= Gap(costLast)
      /\ costPrev.kWh_per_degC = costLast.kWh_per_degC
      /\ Side(costPrev) \in {"at", Side(costLast)} ) =>
        costPrev.res.savings <= costLast.res.savings

\* cooling from 24 then from 26 to a target of 21, strictly more saved
C13_Witness ==
    /\ EstimatedTwice
    /\ costPrev.Tin = 24 /\ costPrev.target = 21
    /\ costLast.Tin = 26 /\ costLast.target = 21
    /\ costPrev.kWh_per_degC = NULL /\ costLast.kWh_per_degC = NULL
    /\ costPrev.res.mode = "AC" /\ costLast.res.mode = "AC"
    /\ costPrev.res.savings < costLast.res.savings

(***************************************************************************)
(* C14 as stated.  The energy per degree behind kWh_room, cost_heat and    *)
(* cost_ac is k x 0.000335 x volume of the profile selected by             *)
(* housing_type, whatever else the call passes.                            *)
(***************************************************************************)
C14_ProfileEnergyAlways == Estimated => UsesEnergy(ProfileEnergy)

(***************************************************************************)
(* C14, amended.  When the call passes no kWh_per_degC (absent, or 0) the  *)
(* energy per degree behind kWh_room, cost_heat and cost_ac is             *)
(* k x 0.000335 x volume of the profile selected by housing_type, the      *)
(* apartment profile for an absent or unlisted housing type; a non-zero    *)
(* kWh_per_degC argument is used in its place.                             *)
(***************************************************************************)
C14_ProfileEnergyUnlessOverridden ==
    Estimated =>
        IF costLast.kWh_per_degC \in {NULL, 0}
        THEN UsesEnergy(ProfileEnergy)
        ELSE UsesEnergy(costLast.kWh_per_degC)

\* a house, no override: 7 x 0.000335 x 80 = 0.1876 kWh per degree, 5 degrees
C14_Witness ==
    /\ Estimated
    /\ costFixed.housing_type = "house"
    /\ costLast.kWh_per_degC = NULL
    /\ Gap(costLast) = 5
    /\ costLast.res.kWh_room = 938

(***************************************************************************)
(* The rate machine.  A user has a plan_type (the table's three, an absent *)
(* one, null, or a string that is none of them); on a day of any month and *)
(* any day of the week, the rate is asked for at any hour of that day.     *)
(***************************************************************************)
Plans == {"TOU", "ULO", "TIERED", "undefined", "null", "tou", "FLAT"}

Months == 1..12

Days == 0..6

HoursOfDay == 0..23

RateInit ==
    /\ plan \in Plans
    /\ date \in [month : Months, day : Days, hour : {0}]
    /\ rate = NoRate
    /\ RecIdle
    /\ MoldIdle
    /\ CostIdle
    /\ EstIdle
    /\ WxIdle
    /\ LateIdle

GetRate(h) ==
    /\ date' = [date EXCEPT !.hour = h]
    /\ rate' = getCurrentRate(plan, date')
    /\ UNCHANGED <<plan, recVars, moldVars, costVars, estVars, wxVars, lateVars>>

RateNext == \E h \in HoursOfDay : GetRate(h)

RateSpec == RateInit /\ [][RateNext]_vars

(***************************************************************************)
(* The vocabulary of the claims about getCurrentRate.                      *)
(***************************************************************************)
Rated == rate.planType # "none"

Winter == date.month \in {11, 12, 1, 2, 3, 4}

Weekend == date.day \in {0, 6}

\* the schedule of a plan's table in force at the date asked about
ScheduleAt(table) ==
    table[IF Winter THEN "winter" ELSE "summer"][IF Weekend THEN "weekend" ELSE "weekday"]

\* the periods [start, end) of a schedule that contain hour h
Containing(schedule, h) ==
    { i \in DOMAIN schedule : schedule[i].start <= h /\ h < schedule[i].end }

AllSchedules ==
    { t[s][dt] : t \in {TOU_RATES, ULO_RATES}, s \in {"winter", "summer"},
                 dt \in {"weekday", "weekend"} }

Returns(price, label) == rate.price_cents_per_kWh = price /\ rate.periodLabel = label

(***************************************************************************)
(* C15.  In every TOU and ULO schedule every hour 0..23 lies in exactly    *)
(* one period [start, end); so the period getCurrentRate answers with on   *)
(* these plans is the one period containing the hour, never the fallback   *)
(* to the first period.                                                    *)
(***************************************************************************)
C15_Partition ==
    /\ \A sch \in AllSchedules : \A h \in 0..23 : Cardinality(Containing(sch, h)) = 1
    /\ (Rated /\ plan \in {"TOU", "ULO"}) =>
          LET sch == ScheduleAt(IF plan = "TOU" THEN TOU_RATES ELSE ULO_RATES)
          IN  \E i \in DOMAIN sch :
                /\ Containing(sch, date.hour) = {i}
                /\ Returns(sch[i].rate, sch[i].label)

\* ULO on a weekday at 21:00: the fourth period, Mid-Peak, not the first
C15_Witness ==
    /\ Rated /\ plan = "ULO" /\ date.day = 3 /\ date.hour = 21
    /\ Returns(157, "Mid-Peak")

(***************************************************************************)
(* C16 as stated, its ULO part: on ULO the prices are 3.9, 15.7 and 39.1.  *)
(***************************************************************************)
C16_UloThreePrices ==
    (Rated /\ plan = "ULO") => rate.price_cents_per_kWh \in {39, 157, 391}

(***************************************************************************)
(* C16, amended.  On TOU in winter (months 11-4) the weekday hours 7..10   *)
(* and 17..18 give 20.3 On-Peak, the weekday hours 11..16 give 15.7        *)
(* Mid-Peak, every other weekday hour and every hour of Saturday and       *)
(* Sunday give 9.8 Off-Peak.  On ULO a weekday gives 3.9 Ultra-Low         *)
(* Overnight at 23 and 0..6, 15.7 Mid-Peak at 7..15 and 21..22, 39.1       *)
(* On-Peak at 16..20; a Saturday or Sunday gives 3.9 Ultra-Low Overnight   *)
(* at 23 and 0..6 and 9.8 Weekend Off-Peak at 7..22.  On TIERED the price  *)
(* is the tier-1 price 10.3.                                               *)
(***************************************************************************)
C16_PublishedTable ==
    Rated =>
        LET h == date.hour
        IN  /\ (plan = "TOU" /\ Winter) =>
                  IF Weekend THEN Returns(98, "Off-Peak")
                  ELSE IF h \in (7..10) \cup (17..18) THEN Returns(203, "On-Peak")
                  ELSE IF h \in 11..16 THEN Returns(157, "Mid-Peak")
                  ELSE Returns(98, "Off-Peak")
            /\ plan = "ULO" =>
                  IF h = 23 \/ h \in 0..6 THEN Returns(39, "Ultra-Low Overnight")
                  ELSE IF Weekend THEN Returns(98, "Weekend Off-Peak")
                  ELSE IF h \in 16..20 THEN Returns(391, "On-Peak")
                  ELSE Returns(157, "Mid-Peak")
            /\ plan = "TIERED" => rate.price_cents_per_kWh = 103

\* a weekday in January at 18:00 on TOU: the evening On-Peak
C16_Witness ==
    /\ Rated /\ plan = "TOU" /\ date.month = 1 /\ date.day = 2 /\ date.hour = 18
    /\ Returns(203, "On-Peak")

(***************************************************************************)
(* C17.  For a planType that is none of TOU, ULO and TIERED (null and      *)
(* unknown strings included) getCurrentRate returns what                   *)
(* getCurrentRate('TOU', date) returns: planType TOU, the season of the    *)
(* date, and the numeric price and the label of the TOU period containing  *)
(* the hour.                                                               *)
(***************************************************************************)
C17_DefaultsToTOU ==
    (Rated /\ plan \notin {"TOU", "ULO", "TIERED"}) =>
        LET sch == ScheduleAt(TOU_RATES)
        IN  /\ rate.planType = "TOU"
            /\ rate.season = (IF Winter THEN "winter" ELSE "summer")
            /\ rate.price_cents_per_kWh \in {98, 157, 203}
            /\ \E i \in Containing(sch, date.hour) : Returns(sch[i].rate, sch[i].label)
            /\ rate.tier2_rate = NULL

\* a null plan on a summer weekday at noon: the TOU On-Peak rate
C17_Witness ==
    /\ Rated /\ plan = "null" /\ date.month = 7 /\ date.day = 1 /\ date.hour = 12
    /\ rate.planType = "TOU" /\ Returns(203, "On-Peak")

(***************************************************************************)
(* The estimator machine.  The dashboard hands the estimator the latest    *)
(* indoor temperature of the device and the outdoor temperature and        *)
(* humidity of the weather result; POST /api/readings stores the temp_C of *)
(* the request body as it comes, so that any JSON number, 1e999 included,  *)
(* can be the indoor temperature.                                          *)
(***************************************************************************)
EstTemps == {NULL, NAN, INF, -20, 0, 10, 21, 35}

EstHumidities == {NULL, NAN, -10, 0, 40, 100, 120}

EstInit ==
    /\ estArgs \in [indoorTempC : EstTemps, outdoorTempC : EstTemps,
                     outdoorRH : EstHumidities]
    /\ est = NoHumidity
    /\ RecIdle
    /\ MoldIdle
    /\ CostIdle
    /\ RateIdle
    /\ WxIdle
    /\ LateIdle

EstimateHumidity ==
    /\ est' = estimateIndoorHumidity(estArgs.indoorTempC, estArgs.outdoorTempC,
                                     estArgs.outdoorRH)
    /\ UNCHANGED <<estArgs, recVars, moldVars, costVars, rateVars, wxVars, lateVars>>

EstNext == EstimateHumidity

EstSpec == EstInit /\ [][EstNext]_vars

HumidityEstimated == est.confidence # "none"

\* one of the three arguments is null, undefined or NaN
ArgMissing ==
    \E a \in {estArgs.indoorTempC, estArgs.outdoorTempC, estArgs.outdoorRH} :
        a \in {NULL, NAN}

(***************************************************************************)
(* C18.  estimateIndoorHumidity returns humidity_RH null with confidence   *)
(* NONE when one of its three arguments is null, undefined or NaN, and for *)
(* every other input a numeric humidity_RH from 0 to 100 with a confidence *)
(* among LOW, MEDIUM and HIGH.                                             *)
(***************************************************************************)
C18_FailSoftOrInRange ==
    HumidityEstimated =>
        IF ArgMissing
        THEN est.humidity_RH = NULL /\ est.confidence = "NONE"
        ELSE /\ est.humidity_RH \in 0..1000
             /\ est.confidence \in {"LOW", "MEDIUM", "HIGH"}

(***************************************************************************)
(* The recommendation engine on longer forecasts.  The forecast has up to  *)
(* MaxForecast entries, each one of: a mild window (50 % at 20 degrees), a *)
(* second, different mild window (40 % at 25 degrees), rain (pop 0.5) and  *)
(* an entry on the wrong side of every threshold by the least amount (pop  *)
(* exactly 0.4, exactly 5 degrees).  The other inputs are those that reach *)
(* every return statement of getRecommendation.                            *)
(***************************************************************************)
MaxForecast == 5

Balmy == [pop |-> 0,  descRain |-> FALSE, humidity_RH |-> 40, temp_C |-> 25]
Cold  == [pop |-> 40, descRain |-> FALSE, humidity_RH |-> 50, temp_C |-> 5]

TipForecasts ==
    UNION { [1..n -> {Mild, Balmy, RainPop, Cold}] : n \in 0..MaxForecast }

TipInputs ==
    [ Tin   : {16, 21, 25},
      Tout  : {22},
      RHin  : {61},
      RHout : {50, 70},
      comfort_min : {20},
      comfort_max : {23},
      comfort_min_night : {NULL},
      comfort_max_night : {NULL},
      price_cents_per_kWh : {NULL},
      forecast : TipForecasts,
      moldRiskLevel : {"LOW", "HIGH"} ]

TipHours == {12}

TipInit ==
    /\ inp \in TipInputs
    /\ last = NoCall
    /\ prev = NoCall
    /\ MoldIdle
    /\ CostIdle
    /\ RateIdle
    /\ EstIdle
    /\ WxIdle
    /\ LateIdle

TipNext == \E h \in TipHours : Call(h)

TipSpec == TipInit /\ [][TipNext]_vars

\* the first n entries of the forecast
FirstEntries(n) == { i \in DOMAIN inp.forecast : i <= n }

Rainy(f) == f.pop > 40

DryAndMild(f) == f.humidity_RH < 55 /\ f.temp_C > 5 /\ f.temp_C < 28

(***************************************************************************)
(* C19.  Whatever state is returned: when one of the first 3 forecast      *)
(* entries has pop > 0.4 the tip is the rain tip, even if an earlier entry *)
(* is a dry and mild window; otherwise, when one of the first 4 entries    *)
(* has humidity < 55 and 5 < temperature < 28, the tip is the window tip   *)
(* for the first such entry; otherwise, an empty forecast included, the    *)
(* tip is null.                                                            *)
(***************************************************************************)
C19_TipRule ==
    Called =>
        LET tip == last.res.proactive_tip
            rainy == { i \in FirstEntries(3) : Rainy(inp.forecast[i]) }
            mild == { i \in FirstEntries(4) : DryAndMild(inp.forecast[i]) }
        IN  /\ last.res.state \in {"OPEN_WINDOW", "USE_AC", "USE_HEAT", "DO_NOTHING"}
            /\ IF rainy # {} THEN tip.kind = "rain"
               ELSE IF mild # {} THEN
                    /\ tip.kind = "window"
                    /\ tip.at \in mild
                    /\ \A j \in mild : tip.at <= j
                    /\ tip.temp_C = inp.forecast[tip.at].temp_C
                    /\ tip.humidity_RH = inp.forecast[tip.at].humidity_RH
               ELSE tip.kind = "null"

\* rain in the third entry wins over the mild window in the first, on USE_AC
C19_Witness ==
    /\ Called
    /\ inp.forecast = <<Mild, Cold, RainPop>>
    /\ last.res.state = "USE_AC"
    /\ last.res.proactive_tip.kind = "rain"

(***************************************************************************)
(* C25.  Whenever a call returns the rain tip as proactive_tip, its state  *)
(* is not OPEN_WINDOW; and whenever its state is OPEN_WINDOW, the          *)
(* proactive_tip is null or the ventilation-window tip.                    *)
(***************************************************************************)
C25_RainTipNeverWithWindow ==
    Called =>
        /\ last.res.proactive_tip.kind = "rain" => last.res.state # "OPEN_WINDOW"
        /\ last.res.state = "OPEN_WINDOW"
               => last.res.proactive_tip.kind \in {"null", "window"}

\* high mold risk and drier air outside, rain in the third entry only: the
\* call gives the rain tip and does not open the window
C25_Witness ==
    /\ Called /\ inp.moldRiskLevel = "HIGH" /\ inp.RHout = 50
    /\ Len(inp.forecast) = 3
    /\ ~Rainy(inp.forecast[1]) /\ ~Rainy(inp.forecast[2]) /\ Rainy(inp.forecast[3])
    /\ last.res.proactive_tip = Tip("rain", 3, NULL, NULL)
    /\ last.res.state = "USE_AC"

(***************************************************************************)
(* The weather machine.  Requests for a postal code start at any time;     *)
(* one that finds a fresh cache entry, or no API key, returns at once, the *)
(* others wait for the network and end in one of three ways: both API      *)
(* answers arrive, the API answers with an error code, or a request or the *)
(* parsing of an answer throws.  The clock runs up to MaxTime; at most     *)
(* MaxPending calls wait at a time.                                        *)
(***************************************************************************)
MaxTime == 2

MaxPending == 2

PostalCodes == {"K7L 3N6", "k7l3n6", "null"}

ApiKeys == {"key", "your_api_key_here"}

otherVars == <<recVars, moldVars, costVars, rateVars, estVars, lateVars>>

WxInit ==
    /\ apiKey \in ApiKeys
    /\ clock = 0
    /\ weatherCaches = [k \in {CacheKey(pc) : pc \in PostalCodes} |-> NoEntry]
    /\ pending = {}
    /\ ret = NoReturn
    /\ RecIdle
    /\ MoldIdle
    /\ CostIdle
    /\ RateIdle
    /\ EstIdle
    /\ LateIdle

Tick ==
    /\ clock < MaxTime
    /\ clock' = clock + 1
    /\ UNCHANGED <<apiKey, weatherCaches, pending, ret, otherVars>>

\* fetchWeather with a cache entry still served at the age of CACHE_DURATION
StartFetchInclusive(postalCode) ==
    LET cacheKey == CacheKey(postalCode)
        now == clock
        cached == weatherCaches[cacheKey]
    IN  IF cached # NoEntry /\ now - cached.timestamp <= CACHE_DURATION THEN
            /\ ret' = ReturnOf(postalCode, now, "cache", cached,
                               [cached.data EXCEPT !.cached = TRUE])
            /\ UNCHANGED <<apiKey, clock, weatherCaches, pending, otherVars>>
        ELSE IF apiKey = "your_api_key_here" THEN
            /\ ret' = ReturnOf(postalCode, now, "no_key", cached, getMockWeather)
            /\ UNCHANGED <<apiKey, clock, weatherCaches, pending, otherVars>>
        ELSE
            /\ Cardinality(pending) < MaxPending
            /\ pending' = pending \cup {[postalCode |-> postalCode, now |-> now]}
            /\ UNCHANGED <<apiKey, clock, weatherCaches, ret, otherVars>>

\* fetchWeather up to its first await (lines 84-99)
StartFetch(postalCode) ==
    LET cacheKey == CacheKey(postalCode)
        now == clock
        cached == weatherCaches[cacheKey]
    IN  IF cached # NoEntry /\ now - cached.timestamp < CACHE_DURATION THEN
            /\ ret' = ReturnOf(postalCode, now, "cache", cached,
                               [cached.data EXCEPT !.cached = TRUE])
            /\ UNCHANGED <<apiKey, clock, weatherCaches, pending, otherVars>>
        ELSE IF apiKey = "your_api_key_here" THEN
            /\ ret' = ReturnOf(postalCode, now, "no_key", cached, getMockWeather)
            /\ UNCHANGED <<apiKey, clock, weatherCaches, pending, otherVars>>
        ELSE
            /\ Cardinality(pending) < MaxPending
            /\ pending' = pending \cup {[postalCode |-> postalCode, now |-> now]}
            /\ UNCHANGED <<apiKey, clock, weatherCaches, ret, otherVars>>

\* both answers arrive: the result is built, stored and returned (lines 113-144)
FetchSucceeds(call) ==
    LET cacheKey == CacheKey(call.postalCode)
        result == ApiResult(call.now, clock)
    IN  /\ call \in pending
        /\ pending' = pending \ {call}
        /\ weatherCaches' = [weatherCaches EXCEPT
                                ![cacheKey] = [data |-> result, timestamp |-> call.now]]
        /\ ret' = ReturnOf(call.postalCode, call.now, "ok", weatherCaches[cacheKey],
                           result)
        /\ UNCHANGED <<apiKey, clock, otherVars>>

\* the API answers with cod other than 200 (lines 107-110)
ErrorResponse(call) ==
    /\ call \in pending
    /\ pending' = pending \ {call}
    /\ ret' = ReturnOf(call.postalCode, call.now, "error_response",
                       weatherCaches[CacheKey(call.postalCode)], getMockWeather)
    /\ UNCHANGED <<apiKey, clock, weatherCaches, otherVars>>

\* fetch or json() throws (lines 145-153)
NetworkException(call) ==
    LET stale == weatherCaches[CacheKey(call.postalCode)]
    IN  /\ call \in pending
        /\ pending' = pending \ {call}
        /\ ret' = ReturnOf(call.postalCode, call.now, "exception", stale,
                           IF stale # NoEntry
                           THEN [stale.data EXCEPT !.cached = TRUE, !.stale = TRUE]
                           ELSE getMockWeather)
        /\ UNCHANGED <<apiKey, clock, weatherCaches, otherVars>>

WxNext ==
    \/ Tick
    \/ \E pc \in PostalCodes : StartFetch(pc)
    \/ \E call \in pending : FetchSucceeds(call)
    \/ \E call \in pending : ErrorResponse(call)
    \/ \E call \in pending : NetworkException(call)

WxSpec == WxInit /\ [][WxNext]_vars

\* the last call to return had its weather request fail
RequestFailed == ret.outcome \in {"error_response", "exception"}

\* a result of an earlier successful request for the same key was there then
EarlierSuccess == ret.earlier # NoEntry

(***************************************************************************)
(* C20.  When a weather request for a postal code fails, by a network      *)
(* exception or by an error response of the weather API, and an earlier    *)
(* successful result for that postal code exists, fetchWeather returns     *)
(* that last result labelled stale, not mock data.                         *)
(***************************************************************************)
C20_StaleFallback ==
    (RequestFailed /\ EarlierSuccess) =>
        /\ ret.res.source = "api"
        /\ ret.res.fetched = ret.earlier.data.fetched
        /\ ret.res.stale
        /\ ~ret.res.mock

\* a call for postalCode starts in this step: it returns at once, from the
\* cache or with mock data, or it goes to the network
StartsCall(postalCode) ==
    \/ [postalCode |-> postalCode, now |-> clock] \in pending' \ pending
    \/ /\ ret' # ret
       /\ ret'.outcome \in {"cache", "no_key"}
       /\ ret'.postalCode = postalCode

\* the step returns the entry e as a cache hit and sends no request
ServedFromCache(e) ==
    /\ pending' = pending
    /\ ret'.outcome = "cache"
    /\ ret'.res = [e.data EXCEPT !.cached = TRUE]

\* the entry was stored by a request that started less than CACHE_DURATION
\* before t
FreshAt(e, t) == e # NoEntry /\ t - e.timestamp < CACHE_DURATION

\* the entry's result was completed less than CACHE_DURATION before t
FreshSinceSuccess(e, t) == e # NoEntry /\ t - e.data.fetchedAt < CACHE_DURATION

\* the last call returned a stored result
ReturnedStored == ret.outcome # "ok" /\ ret.res.source = "api"

\* a stored result past its time is returned only as the stale fallback
OldOnlyAsStale ==
    (ReturnedStored /\ ~FreshAt(ret.earlier, ret.now)) =>
        (ret.outcome = "exception" /\ ret.res.stale)

\* a cache hit returns a fresh stored result
HitIsFresh ==
    ret.outcome = "cache" =>
        /\ FreshAt(ret.earlier, ret.now)
        /\ ret.res = [ret.earlier.data EXCEPT !.cached = TRUE]

\* only results of the API are stored
NoMockStored ==
    \A k \in DOMAIN weatherCaches :
        weatherCaches[k] # NoEntry =>
            (weatherCaches[k].data.source = "api" /\ ~weatherCaches[k].data.mock)

(***************************************************************************)
(* C21 as stated.  After a successful fetchWeather for a postal code,      *)
(* every call for the same normalized postal code that starts less than    *)
(* 10 minutes after that success returns the stored result with cached     *)
(* true and sends no request; a stored result older than 10 minutes is     *)
(* returned only as the stale fallback; mock results are never stored.     *)
(***************************************************************************)
C21_FreshAfterSuccess ==
    [][ /\ \A pc \in PostalCodes :
              LET e == weatherCaches[CacheKey(pc)]
              IN  (StartsCall(pc) /\ FreshSinceSuccess(e, clock)) =>
                      ServedFromCache(e)
        /\ OldOnlyAsStale'
        /\ NoMockStored' ]_vars

(***************************************************************************)
(* C21, amended.  The 10 minutes of an entry run from the START of the     *)
(* request that stored it: every call for the same normalized postal code  *)
(* that starts less than 10 minutes after that start returns the stored    *)
(* result with cached true and sends no request; a cache hit is always     *)
(* such a result; a stored result older than that is returned only as the  *)
(* stale fallback after an exception; mock results are never stored.       *)
(***************************************************************************)
C21_FreshAfterStart ==
    [][ /\ \A pc \in PostalCodes :
              LET e == weatherCaches[CacheKey(pc)]
              IN  (StartsCall(pc) /\ FreshAt(e, clock)) => ServedFromCache(e)
        /\ HitIsFresh'
        /\ OldOnlyAsStale'
        /\ NoMockStored' ]_vars

\* a call was served from the cache a result that a request started one
\* clock step earlier had just completed
C21_Witness ==
    /\ ret.outcome = "cache"
    /\ ret.res.cached
    /\ ret.now - ret.earlier.timestamp = 1
    /\ ret.earlier.data.fetchedAt = ret.now

(***************************************************************************)
(* The timer machine.  start() and stop() of either module are called at   *)
(* any moment; a start-up timeout that was set fires at some later moment, *)
(* an active interval fires again and again.  At most MaxStarts timers of  *)
(* a module are set at a time.                                             *)
(***************************************************************************)
MaxStarts == 2

\* the handle setInterval returns: one no active interval has and the
\* module's variable does not hold
NewInterval(m) ==
    CHOOSE i \in 1..(MaxStarts + 1) :
        /\ i \notin intervals[m] \cup {timer[m]}
        /\ \A j \in 1..(MaxStarts + 1) :
               j \notin intervals[m] \cup {timer[m]} => i <= j

TimerInit ==
    /\ TimerIdle
    /\ CmpIdle
    /\ MonIdle
    /\ RecIdle
    /\ MoldIdle
    /\ CostIdle
    /\ RateIdle
    /\ EstIdle
    /\ WxIdle

\* start(): the first run is put behind a timeout whose handle is dropped
start(m) ==
    /\ timeouts[m] + Cardinality(intervals[m]) < MaxStarts
    /\ timeouts' = [timeouts EXCEPT ![m] = @ + 1]
    /\ stopSeen' = [stopSeen EXCEPT ![m] = FALSE]
    /\ lastEvent' = [lastEvent EXCEPT ![m] = "start"]
    /\ UNCHANGED <<timer, intervals, recVars, moldVars, costVars, rateVars, estVars,
                   wxVars, cmpVars, monVars>>

\* the callback of the start-up timeout: the first run, then setInterval
StartupFires(m) ==
    /\ timeouts[m] > 0
    /\ timeouts' = [timeouts EXCEPT ![m] = @ - 1]
    /\ lastEvent' = [lastEvent EXCEPT ![m] = "run"]
    /\ timer' = [timer EXCEPT ![m] = NewInterval(m)]
    /\ intervals' = [intervals EXCEPT ![m] = @ \cup {NewInterval(m)}]
    /\ UNCHANGED <<stopSeen, recVars, moldVars, costVars, rateVars, estVars, wxVars,
                   cmpVars, monVars>>

\* an interval fires: a periodic run
IntervalFires(m) ==
    /\ intervals[m] # {}
    /\ lastEvent' = [lastEvent EXCEPT ![m] = "run"]
    /\ UNCHANGED <<timer, timeouts, intervals, stopSeen, recVars, moldVars, costVars,
                   rateVars, estVars, wxVars, cmpVars, monVars>>

\* stop(): clears the interval the variable holds, if any
stop(m) ==
    /\ intervals' = [intervals EXCEPT ![m] = @ \ {timer[m]}]
    /\ timer' = [timer EXCEPT ![m] = NULL]
    /\ stopSeen' = [stopSeen EXCEPT ![m] = lastEvent[m] # "none"]
    /\ lastEvent' = [lastEvent EXCEPT ![m] = IF lastEvent[m] = "none" THEN "none"
                                             ELSE "stop"]
    /\ UNCHANGED <<timeouts, recVars, moldVars, costVars, rateVars, estVars, wxVars,
                   cmpVars, monVars>>

TimerNext ==
    \E m \in Modules :
        \/ start(m)
        \/ StartupFires(m)
        \/ IntervalFires(m)
        \/ stop(m)

TimerSpec == TimerInit /\ [][TimerNext]_vars

(***************************************************************************)
(* C29.  For the condition monitor and the daily-summary updater alike:    *)
(* once stop() has returned after a start(), no further periodic run is    *)
(* started and no interval timer remains active, at whatever moment after  *)
(* start() the stop() is called, the start-up delay included.              *)
(***************************************************************************)
C29_StopIsFinal ==
    \A m \in Modules :
        stopSeen[m] => (intervals[m] = {} /\ lastEvent[m] # "run")

(***************************************************************************)
(* The two handlers side by side.  Both read the same user row, latest     *)
(* reading, readings of the last 24 hours, weather and rate at the same    *)
(* hour; each computes its recommendation from them.  The user has the day *)
(* band 20-23 and may have the night band 17-19; the readings of the last  *)
(* 24 hours are few and dry, or 91 one-minute readings over 70 %.          *)
(***************************************************************************)
Users ==
    [ comfort_min : {20}, comfort_max : {23},
      comfort_min_night : {NULL, 17}, comfort_max_night : {NULL, 19} ]

Latests ==
    { [id |-> 1, temp_C |-> 18, humidity_RH |-> 50],
      [id |-> 1, temp_C |-> 21, humidity_RH |-> NULL],
      [id |-> 1, temp_C |-> 25, humidity_RH |-> 65] }

Steady(n, rh) == [i \in 1..n |-> [humidity_RH |-> rh]]

Last24hs == { Steady(2, 50), Steady(91, 71) }

Weathers ==
    { [current |-> [temp_C |-> 10, humidity_RH |-> 80], forecast |-> <<RainPop>>],
      [current |-> [temp_C |-> 21, humidity_RH |-> 50], forecast |-> <<>>],
      [current |-> [temp_C |-> 21, humidity_RH |-> 70], forecast |-> <<Mild, Dry>>] }

CurrentRates ==
    { [price_cents_per_kWh |-> 5, periodLabel |-> "Off-Peak"],
      [price_cents_per_kWh |-> 15, periodLabel |-> "On-Peak"] }

Envs ==
    [ user : Users, latest : Latests \cup {NoReading}, last24h : Last24hs,
      weather : Weathers, currentRate : CurrentRates, hour : Hours ]

CmpInit ==
    /\ env \in Envs
    /\ monRec = NoResult
    /\ dashRec = NoResult
    /\ TimerIdle
    /\ MonIdle
    /\ RecIdle
    /\ MoldIdle
    /\ CostIdle
    /\ RateIdle
    /\ EstIdle
    /\ WxIdle

\* checkConditions up to line 91 (it returns on line 43 without a reading)
MonitorComputes ==
    /\ env.latest # NoReading
    /\ monRec' = monitorRecommendation(env.user, env.latest, env.last24h,
                                       env.weather, env.currentRate, env.hour)
    /\ UNCHANGED <<env, dashRec, timerVars, recVars, moldVars, costVars, rateVars,
                   estVars, wxVars, monVars>>

\* the dashboard handler up to line 162
DashboardComputes ==
    /\ dashRec' = dashboardRecommendation(env.user, env.latest, env.last24h,
                                          env.weather, env.currentRate, env.hour)
    /\ UNCHANGED <<env, monRec, timerVars, recVars, moldVars, costVars, rateVars,
                   estVars, wxVars, monVars>>

CmpNext == MonitorComputes \/ DashboardComputes

CmpSpec == CmpInit /\ [][CmpNext]_vars

MaxElapsed == 3

MaxRunning == 2

MaxNotifications == 2

Profiles ==
    { [quiet_hours_start |-> NULL, quiet_hours_end |-> NULL],
      [quiet_hours_start |-> 22, quiet_hours_end |-> 7] }

MonitorUsers ==
    { u \in Users : u.comfort_min_night # NULL /\ u.comfort_max_night # NULL }

\* lines 40-48: what the two queries for readings return, the second by name:
\* a cool dry home, and a warm one that has been damp for 91 minutes
Readings ==
    { [latest |-> [id |-> 1, temp_C |-> 18, humidity_RH |-> 50], last24h |-> "dry"],
      [latest |-> [id |-> 1, temp_C |-> 25, humidity_RH |-> 65], last24h |-> "damp"] }

MonitorWeathers == { w \in Weathers : w.forecast # <<>> }

MonitorRates == { r \in CurrentRates : r.periodLabel = "On-Peak" }

MonitorHours == {7, 22}

\* line 46: the rows of the last 24 hours, by name
Last24hNamed == [dry |-> Steady(2, 50), damp |-> Steady(91, 71)]

\* line 75, for each of them
moldRiskOf ==
    [ dry |-> computeMoldRisk(Last24hNamed.dry, 1),
      damp |-> computeMoldRisk(Last24hNamed.damp, 1) ]

\* lines 51-57
QuietNow(profile, hr) ==
    /\ profile.quiet_hours_start # NULL
    /\ profile.quiet_hours_end # NULL
    /\ (hr >= profile.quiet_hours_start \/ hr < profile.quiet_hours_end)

Row(trigger_type, ts, summary, to, words) ==
    [ trigger_type |-> trigger_type, ts |-> ts, summary |-> summary,
      to |-> to, words |-> words ]

\* lines 106-112
triggerTypes(state) ==
    CASE state \in {"OPEN_WINDOW", "CLOSE_WINDOW"} -> "weather_alert"
      [] state \in {"USE_AC", "USE_HEAT"} -> "savings_opportunity"
      [] OTHER -> "general"

\* lines 96-104, 114: which of 'cold' and 'warm' the message of a state
\* change contains, from its fixed text and from the reasons joined to it
WordsOf(rec) ==
    (IF rec.state = "USE_HEAT" THEN {"cold", "warm"} ELSE {})
        \cup (IF \E i \in DOMAIN rec.reasons : rec.reasons[i] = "warmer"
              THEN {"warm"} ELSE {})

\* Mutant of stateChanged: the first state is announced too.
stateChangedAlsoFirst(previous, state) == state # previous

\* line 94
stateChanged(previous, state) == previous # "null" /\ state # previous

\* Mutant of moldAlertDue: an alert is due again when the cooldown is reached.
moldAlertDueAtCooldown(level, t, lastAlert) ==
    level = "HIGH" /\ t - lastAlert >= MOLD_ALERT_COOLDOWN

\* line 120
moldAlertDue(level, t, lastAlert) ==
    level = "HIGH" /\ t - lastAlert > MOLD_ALERT_COOLDOWN

\* the COUNT(*) queries of lines 133-138, 148-153 and 170-174
RecentRows(rows, trigger_type, since, word) ==
    Cardinality({ i \in DOMAIN rows :
                    /\ rows[i].trigger_type = trigger_type
                    /\ rows[i].ts >= since
                    /\ (word = "any" \/ word \in rows[i].words) })

\* lines 93-128: the state change and the mold alert
Announce(rows, previous, rec, level, t, lastAlert) ==
    LET changed == stateChanged(previous, rec.state)
        rows1 == IF changed
                 THEN Append(rows, Row(triggerTypes(rec.state), t, "state changed",
                                       rec.state, WordsOf(rec)))
                 ELSE rows
        due == moldAlertDue(level, t, lastAlert)
        rows2 == IF due
                 THEN Append(rows1, Row("mold_risk", t, "mold risk HIGH", "none", {}))
                 ELSE rows1
    IN  [ rows |-> rows2, notified |-> changed,
          lastMoldAlert |-> IF due THEN t ELSE lastAlert ]

\* lines 130-162: a null Tin compares as 0, and Tin.toFixed then throws
TemperatureAlert(rows, Tin, band, t) ==
    LET TinNum == IF Tin = NULL THEN 0 ELSE Tin
    IN  IF TinNum < band.min - 2 THEN
            IF RecentRows(rows, "weather_alert", t - 1, "cold") = 0
            THEN [ rows |-> IF Tin = NULL THEN rows
                            ELSE Append(rows, Row("weather_alert", t, "temp below",
                                                  "none", {})),
                   threw |-> Tin = NULL ]
            ELSE [rows |-> rows, threw |-> FALSE]
        ELSE IF TinNum > band.max + 2 THEN
            IF RecentRows(rows, "weather_alert", t - 1, "warm") = 0
            THEN [ rows |-> Append(rows, Row("weather_alert", t, "temp above",
                                             "none", {})),
                   threw |-> FALSE ]
            ELSE [rows |-> rows, threw |-> FALSE]
        ELSE [rows |-> rows, threw |-> FALSE]

\* lines 164-193
RateTip(rows, hr, firstMinutes, t) ==
    IF hr \in {7, 19} /\ firstMinutes
          /\ RecentRows(rows, "savings_opportunity", t - MOLD_ALERT_COOLDOWN, "any") = 0
    THEN Append(rows, Row("savings_opportunity", t,
                          IF hr = 7 THEN "peak hours starting"
                          ELSE "off-peak hours starting", "none", {}))
    ELSE rows

\* lines 62-193, from the answer of fetchWeather on; moldRisk is the value of
\* line 75, computeMoldRisk(last24h, 1)
AfterWeather(inv, moldRisk, weather, currentRate, hr, firstMinutes) ==
    LET rec == recommendationWith(inv.user, inv.latest, moldRisk, weather,
                                  currentRate, hr)
        band == getComfortBand(inv.user, hr)
        a == Announce(notifications, lastState, rec, moldRisk.risk_level, time,
                      lastMoldAlert)
        alert == TemperatureAlert(a.rows, inv.latest.temp_C, band, time)
    IN  [ rec |-> rec, notified |-> a.notified, lastMoldAlert |-> a.lastMoldAlert,
          rows |-> IF alert.threw THEN alert.rows
                   ELSE RateTip(alert.rows, hr, firstMinutes, time) ]

MonInit ==
    /\ MonIdle
    /\ TimerIdle
    /\ CmpIdle
    /\ RecIdle
    /\ MoldIdle
    /\ CostIdle
    /\ RateIdle
    /\ EstIdle
    /\ WxIdle

TimePasses ==
    /\ time < ProcessStart + MaxElapsed
    /\ time' = time + 1
    /\ UNCHANGED <<lastState, lastMoldAlert, running, notifications, checked,
                   timerVars, cmpVars, recVars, moldVars, costVars, rateVars,
                   estVars, wxVars>>

\* what an invocation that returns before the recommendation step leaves
EarlyReturn ==
    /\ checked' = "early"
    /\ UNCHANGED <<time, lastState, lastMoldAlert, running, notifications,
                   timerVars, cmpVars, recVars, moldVars, costVars, rateVars,
                   estVars, wxVars>>

\* line 35: there is no user
ReturnsNoUser == EarlyReturn

\* line 43: the device has no reading
ReturnsNoReading == EarlyReturn

\* lines 51-57: it is quiet hours
ReturnsQuietHours(profile, hr) == QuietNow(profile, hr) /\ EarlyReturn

\* lines 60-61: there is no API key
ReturnsNoApiKey(profile, hr) == ~QuietNow(profile, hr) /\ EarlyReturn

\* lines 33-62: an invocation that reaches the await of fetchWeather
AwaitsWeather(user, found, profile, hr) ==
    /\ found.latest # NoReading
    /\ ~QuietNow(profile, hr)
    /\ Cardinality(running) < MaxRunning
    /\ running' = running \cup {[user |-> user, latest |-> found.latest,
                                  last24h |-> found.last24h]}
    /\ UNCHANGED <<time, lastState, lastMoldAlert, notifications, checked,
                   timerVars, cmpVars, recVars, moldVars, costVars, rateVars,
                   estVars, wxVars>>

\* lines 62-193: fetchWeather has answered
Resumes(inv, moldRisk, weather, currentRate, hr, firstMinutes) ==
    LET after == AfterWeather(inv, moldRisk, weather, currentRate, hr, firstMinutes)
    IN  /\ inv \in running
        /\ Len(after.rows) <= MaxNotifications
        /\ running' = running \ {inv}
        /\ lastState' = after.rec.state
        /\ lastMoldAlert' = after.lastMoldAlert
        /\ notifications' = after.rows
        /\ checked' = "reached"
        /\ UNCHANGED <<time, timerVars, cmpVars, recVars, moldVars, costVars,
                       rateVars, estVars, wxVars>>

MonNext ==
    \/ TimePasses
    \/ ReturnsNoUser
    \/ ReturnsNoReading
    \/ \E profile \in Profiles, hr \in MonitorHours :
            ReturnsQuietHours(profile, hr)
    \/ \E profile \in Profiles, hr \in MonitorHours :
            ReturnsNoApiKey(profile, hr)
    \/ \E user \in MonitorUsers, found \in Readings, profile \in Profiles,
          hr \in MonitorHours :
            AwaitsWeather(user, found, profile, hr)
    \/ \E inv \in running, weather \in MonitorWeathers,
          currentRate \in MonitorRates, hr \in MonitorHours,
          firstMinutes \in BOOLEAN :
            Resumes(inv, moldRiskOf[inv.last24h], weather, currentRate, hr,
                    firstMinutes)

MonSpec == MonInit /\ [][MonNext]_vars

MoldRows == { i \in DOMAIN notifications : notifications[i].trigger_type = "mold_risk" }

\* the time of the last mold_risk row, 0 when there is none
LastMoldRowAt ==
    IF MoldRows = {} THEN 0
    ELSE notifications[CHOOSE i \in MoldRows : \A j \in MoldRows : j <= i].ts

\* C27: any two mold_risk notifications of the monitor are more than
\* MOLD_ALERT_COOLDOWN apart, whatever invocations are between their two parts,
\* and lastMoldAlert is always the time of the last of them: no invocation
\* checks it between another's check and update.
C27_MoldCooldown ==
    /\ \A i \in MoldRows : \A j \in MoldRows :
          i < j => notifications[j].ts - notifications[i].ts > MOLD_ALERT_COOLDOWN
    /\ lastMoldAlert = LastMoldRowAt

\* Two mold_risk rows have been written while another invocation that read a
\* damp day is still waiting for the weather.
C27_Witness ==
    /\ Cardinality(MoldRows) = 2
    /\ \E inv \in running : inv.last24h = "damp"

IsStateRow(row) == row.summary = "state changed"

StateRows(rows) == SelectSeq(rows, IsStateRow)

\* a step in which an invocation passes the recommendation step
ReachesStep == checked' = "reached" /\ Cardinality(running') < Cardinality(running)

AnnouncesChange ==
    /\ Len(StateRows(notifications')) = Len(StateRows(notifications)) + 1
    /\ StateRows(notifications')[Len(StateRows(notifications'))].to = lastState'

AnnouncesNothing == StateRows(notifications') = StateRows(notifications)

\* C28: the first check that reaches the recommendation step announces no state
\* change; a later one announces one exactly when its state differs from the
\* state the last such check stored, so successive state-change rows announce
\* different states; every other step, the early returns among them, leaves
\* lastState as it is.
C28_StateChanges ==
    /\ [](\A k \in 1..(Len(StateRows(notifications)) - 1) :
            StateRows(notifications)[k].to # StateRows(notifications)[k + 1].to)
    /\ [](lastState = "null" => StateRows(notifications) = <<>>)
    /\ [][ IF ReachesStep
            THEN /\ lastState' # "null"
                 /\ IF lastState # "null" /\ lastState' # lastState
                    THEN AnnouncesChange
                    ELSE AnnouncesNothing
            ELSE lastState' = lastState /\ AnnouncesNothing ]_vars

\* Two state changes have been announced, and the last check returned early.
C28_Witness ==
    /\ Len(StateRows(notifications)) = 2
    /\ checked = "early"
    /\ lastState = StateRows(notifications)[2].to

====
